---------------------------- MODULE Spec2Model ----------------------------
(***************************************************************************)
(* Model of the astrology-app core: the birth-time rectification search    *)
(* (src/engines/rectification/birth_time_rectifier.py) and the aspect      *)
(* detector of the chart engine (src/professional_astro.py).               *)
(*                                                                         *)
(* Python floats are modelled as exact rationals <<numerator, denominator>>*)
(* with a positive denominator, kept in lowest terms.  The trigonometric   *)
(* ephemeris series are not expressible; the longitudes they produce are   *)
(* inputs drawn from bounded sets of values in [0, 360).                   *)
(***************************************************************************)
EXTENDS Integers, Sequences, FiniteSets, TLC

VARIABLES
    \* ---- rectify_birth_time (one run of the handler) ----
    pc,                 \* phase of the run
    birth_data,         \* [approx_time, latitude, longitude, personality]
    life_events,        \* sequence of life events
    time_window_hours,  \* integer search window
    ephemeris,          \* the sky: candidate time -> chart longitudes
    current_time,       \* loop variable of _generate_time_candidates
    candidates,         \* list built by _generate_time_candidates
    scored_candidates,  \* list built by the scoring loop, then sorted
    result,             \* the returned dict (or the raised exception)
    \* ---- _calculate_running_dasha (one call) ----
    d_pc, d_moon, d_years, d_loop, d_lord,
    \* ---- _calculate_precise_aspects / _calculate_aspects (one call) ----
    a_pc, a_preset, a_planets, a_i, a_j, a_aspects, a_examined,
    \* ---- scoring of one candidate ----
    s_pc, s_input, s_events, s_personality, s_candidate,
    \* ---- _calculate_enhanced_houses (one call) ----
    h_pc, h_args, h_i, h_houses,
    \* ---- one call of a conversion of the engines ----
    f_pc, f_call, f_result,
    \* ---- the engine object: config, cache, performance log, time.time() ----
    e_config, e_cache, e_performance_log, e_clock, e_call, e_returned, e_stored,
    \* ---- the scoring loop body run by several workers ----
    p_pc, p_input, p_workers, p_scored, p_result

runvars == <<pc, birth_data, life_events, time_window_hours,
             current_time, candidates, scored_candidates, result>>
dashavars == <<d_pc, d_moon, d_years, d_loop, d_lord>>
aspectvars == <<a_pc, a_preset, a_planets, a_i, a_j, a_aspects, a_examined>>
scorevars == <<s_pc, s_input, s_events, s_personality, s_candidate>>
housevars == <<h_pc, h_args, h_i, h_houses>>
callvars == <<f_pc, f_call, f_result>>
enginevars == <<e_config, e_cache, e_performance_log, e_clock, e_call, e_returned, e_stored>>
evalvars == <<p_pc, p_input, p_workers, p_scored, p_result>>
vars == <<ephemeris, runvars, dashavars, aspectvars, scorevars, housevars, callvars,
          enginevars, evalvars>>

\* What the actions of one entry point leave alone.
notRun == <<dashavars, aspectvars, scorevars, housevars, callvars, enginevars, evalvars>>
notDasha == <<runvars, aspectvars, scorevars, housevars, callvars, enginevars, evalvars>>
notAspects == <<runvars, dashavars, scorevars, housevars, callvars, enginevars, evalvars>>
notScore == <<runvars, dashavars, aspectvars, housevars, callvars, enginevars, evalvars>>
notHouses == <<runvars, dashavars, aspectvars, scorevars, callvars, enginevars, evalvars>>
notCall == <<runvars, dashavars, aspectvars, scorevars, housevars, enginevars, evalvars>>
notEngine == <<runvars, dashavars, aspectvars, scorevars, housevars, callvars, evalvars>>
notEval == <<runvars, dashavars, aspectvars, scorevars, housevars, callvars>>

-----------------------------------------------------------------------------
(* Exact rational arithmetic standing in for Python float arithmetic.      *)

Abs(x) == IF x < 0 THEN -x ELSE x

RECURSIVE GCD(_, _)
GCD(a, b) == IF b = 0 THEN a ELSE GCD(b, a % b)

\* The rational n/d in lowest terms (d # 0).
Rat(n, d) ==
    LET s == IF d < 0 THEN -1 ELSE 1
        g == GCD(Abs(n), Abs(d))
    IN  <<(s * n) \div g, (s * d) \div g>>

R(i) == <<i, 1>>
LCM(a, b) == (a \div GCD(a, b)) * b
RatAdd(x, y) ==
    LET l == LCM(x[2], y[2])
    IN  Rat(x[1] * (l \div x[2]) + y[1] * (l \div y[2]), l)
RatNeg(x) == <<-x[1], x[2]>>
RatSub(x, y) == RatAdd(x, RatNeg(y))
RatMul(x, y) ==
    LET g1 == GCD(Abs(x[1]), y[2])
        g2 == GCD(Abs(y[1]), x[2])
    IN  Rat((x[1] \div g1) * (y[1] \div g2), (x[2] \div g2) * (y[2] \div g1))
RatDiv(x, y) == RatMul(x, Rat(y[2], y[1]))
RatLE(x, y) == x[1] * y[2] <= y[1] * x[2]
RatLT(x, y) == x[1] * y[2] < y[1] * x[2]
RatGE(x, y) == RatLE(y, x)
RatGT(x, y) == RatLT(y, x)
RatAbs(x) == <<Abs(x[1]), x[2]>>
RatMin(x, y) == IF RatLE(x, y) THEN x ELSE y
RatMax(x, y) == IF RatLE(x, y) THEN y ELSE x
\* Python's x // y for floats, as an integer (floor division).
RatFloorDiv(x, y) == LET q == RatDiv(x, y) IN q[1] \div q[2]
\* Python's x % y for y > 0.
RatMod(x, y) == RatSub(x, RatMul(R(RatFloorDiv(x, y)), y))


-----------------------------------------------------------------------------
(* BirthTimeRectifier constant tables (__init__).                          *)

\* Vimshottari period lengths in years, in the dict's insertion order.
dasha_lords ==
    <<"sun", "moon", "mars", "rahu", "jupiter", "saturn", "mercury", "ketu", "venus">>

dasha_periods_short ==
    [sun |-> 6, moon |-> 10, mars |-> 7, rahu |-> 18, jupiter |-> 16,
     saturn |-> 18, mercury |-> 17, ketu |-> 7, venus |-> 20]

dasha_periods ==
    [sun |-> 6, moon |-> 10, mars |-> 7, rahu |-> 18, jupiter |-> 16,
     saturn |-> 19, mercury |-> 17, ketu |-> 7, venus |-> 20]

\* Nakshatra (0..26) to dasha lord; the list is indexed from 0 in the code.
nakshatra_lords ==
    <<"ketu", "venus", "sun", "moon", "mars", "rahu", "jupiter",
      "saturn", "mercury", "ketu", "venus", "sun", "moon", "mars",
      "rahu", "jupiter", "saturn", "mercury", "ketu", "venus",
      "sun", "moon", "mars", "rahu", "jupiter", "saturn", "mercury">>

Lords == {dasha_lords[i] : i \in 1..Len(dasha_lords)}

\* list.index(x): 0-based position of the first occurrence.
IndexOf(seq, x) == (CHOOSE i \in 1..Len(seq) : seq[i] = x /\ \A j \in 1..(i-1) : seq[j] # x) - 1

-----------------------------------------------------------------------------
(* _calculate_running_dasha                                                *)

\* 360/27, the width of one nakshatra in degrees.
NakshatraSpan == Rat(360, 27)

nakshatra_number_narrow(moon_longitude) == RatFloorDiv(moon_longitude, Rat(360, 28))

\* int(moon_longitude // (360/27))
nakshatra_number(moon_longitude) == RatFloorDiv(moon_longitude, NakshatraSpan)

\* (moon_longitude % (360/27)) / (360/27)
nakshatra_position(moon_longitude) ==
    RatDiv(RatMod(moon_longitude, NakshatraSpan), NakshatraSpan)

\* A Python list subscript: a negative index counts from the end.
PyIndex(seq, i) == IF i < 0 THEN seq[Len(seq) + i + 1] ELSE seq[i + 1]
PyIndexOk(seq, i) == i \in (-Len(seq))..(Len(seq) - 1)

\* self.nakshatra_lords[nakshatra_number]
birth_dasha_lord(moon_longitude) ==
    PyIndex(nakshatra_lords, nakshatra_number(moon_longitude))

\* birth_dasha_period * (1 - nakshatra_position); the nakshatra is in range.
remaining_birth_dasha(moon_longitude) ==
    RatMul(R(dasha_periods[birth_dasha_lord(moon_longitude)]),
           RatSub(R(1), nakshatra_position(moon_longitude)))

\* The state on entry to the while loop (lines 244-251).
DashaLoopInit(moon_longitude, years_since_birth) ==
    LET birth_lord_index == IndexOf(dasha_lords, birth_dasha_lord(moon_longitude))
    IN  [elapsed_years |-> RatSub(years_since_birth, remaining_birth_dasha(moon_longitude)),
         current_elapsed |-> R(0),
         current_index |-> (birth_lord_index + 1) % Len(dasha_lords),
         iterations |-> 0]

\* while current_elapsed < elapsed_years
DashaLoopTest(st) == RatLT(st.current_elapsed, st.elapsed_years)

\* The body returning as soon as current_elapsed + period >= elapsed_years
DashaLoopBody_inclusive(st) ==
    LET current_lord == dasha_lords[st.current_index + 1]
        period == R(dasha_periods[current_lord])
    IN  IF RatGE(RatAdd(st.current_elapsed, period), st.elapsed_years)
        THEN [returned |-> TRUE, lord |-> current_lord, next |-> st]
        ELSE [returned |-> FALSE, lord |-> "",
              next |-> [st EXCEPT !.current_elapsed = RatAdd(st.current_elapsed, period),
                                  !.current_index = (st.current_index + 1) % Len(dasha_lords),
                                  !.iterations = st.iterations + 1]]

\* One pass through the body of the while loop (lines 254-261): either the
\* lord returned from inside the loop, or the state for the next test.
DashaLoopBody(st) ==
    LET current_lord == dasha_lords[st.current_index + 1]
        period == R(dasha_periods[current_lord])
    IN  IF RatGT(RatAdd(st.current_elapsed, period), st.elapsed_years)
        THEN [returned |-> TRUE, lord |-> current_lord, next |-> st]
        ELSE [returned |-> FALSE, lord |-> "",
              next |-> [st EXCEPT !.current_elapsed = RatAdd(st.current_elapsed, period),
                                  !.current_index = (st.current_index + 1) % Len(dasha_lords),
                                  !.iterations = st.iterations + 1]]

RECURSIVE DashaWalk(_)
DashaWalk(st) ==
    IF ~DashaLoopTest(st)
    THEN dasha_lords[st.current_index + 1]
    ELSE LET b == DashaLoopBody(st)
         IN  IF b.returned THEN b.lord ELSE DashaWalk(b.next)

\* The whole function: the lord running years_since_birth after birth, or
\* "IndexError" when the nakshatra index is outside the 27-entry list.
calculate_running_dasha(moon_longitude, years_since_birth) ==
    IF ~PyIndexOk(nakshatra_lords, nakshatra_number(moon_longitude))
    THEN "IndexError"
    ELSE IF RatLE(years_since_birth, remaining_birth_dasha(moon_longitude))
         THEN birth_dasha_lord(moon_longitude)
         ELSE DashaWalk(DashaLoopInit(moon_longitude, years_since_birth))

-----------------------------------------------------------------------------
(* One call of _calculate_running_dasha, the while loop taken one pass at  *)
(* a time.                                                                 *)

\* Bounds of the inputs of the call.
MaxYears == 300
PositionsPerNakshatra == 2

\* Moon longitudes: every nakshatra, at evenly spaced fractional positions.
MoonSamples ==
    {RatMul(NakshatraSpan, Rat(k * PositionsPerNakshatra + f, PositionsPerNakshatra)) :
        k \in 0..26, f \in 0..(PositionsPerNakshatra - 1)}

YearSamples == {R(y) : y \in 0..MaxYears}

NoLoop == [elapsed_years |-> R(0), current_elapsed |-> R(0),
           current_index |-> 0, iterations |-> 0]

DashaIdle ==
    /\ d_pc = "idle" /\ d_moon = R(0) /\ d_years = R(0)
    /\ d_loop = NoLoop /\ d_lord = ""

DashaInit ==
    /\ d_pc = "call"
    /\ d_moon \in MoonSamples
    /\ d_years \in YearSamples
    /\ d_loop = NoLoop
    /\ d_lord = ""

\* Lines 229-251: the birth nakshatra, the early return, the loop set-up.
DashaCall ==
    /\ d_pc = "call"
    /\ IF ~PyIndexOk(nakshatra_lords, nakshatra_number(d_moon))
       THEN d_pc' = "raised" /\ d_lord' = "IndexError" /\ UNCHANGED d_loop
       ELSE IF RatLE(d_years, remaining_birth_dasha(d_moon))
            THEN d_pc' = "done" /\ d_lord' = birth_dasha_lord(d_moon) /\ UNCHANGED d_loop
            ELSE d_pc' = "loop" /\ d_loop' = DashaLoopInit(d_moon, d_years)
                 /\ UNCHANGED d_lord
    /\ UNCHANGED <<d_moon, d_years>>
    /\ UNCHANGED <<ephemeris, notDasha>>

\* Lines 253-261: the loop test holds, one pass through the body.
DashaIter ==
    /\ d_pc = "loop"
    /\ DashaLoopTest(d_loop)
    /\ LET b == DashaLoopBody(d_loop)
       IN  IF b.returned
           THEN d_pc' = "done" /\ d_lord' = b.lord /\ UNCHANGED d_loop
           ELSE d_loop' = b.next /\ UNCHANGED <<d_pc, d_lord>>
    /\ UNCHANGED <<d_moon, d_years>>
    /\ UNCHANGED <<ephemeris, notDasha>>

\* Line 263: the loop test fails, the lord at current_index is returned.
DashaExit ==
    /\ d_pc = "loop"
    /\ ~DashaLoopTest(d_loop)
    /\ d_pc' = "done"
    /\ d_lord' = dasha_lords[d_loop.current_index + 1]
    /\ UNCHANGED <<d_moon, d_years, d_loop>>
    /\ UNCHANGED <<ephemeris, notDasha>>

-----------------------------------------------------------------------------
(* The enhanced engine as the rectifier sees it.  Julian days are counted  *)
(* from 0h UTC of the birth date: a candidate time is a number of minutes  *)
(* after it, an event date a whole number of days after it.  The variable  *)
(* ephemeris holds what the engine's series give at each of those instants:*)
(* the tropical longitudes, the Greenwich sidereal angle theta0 and the    *)
(* Lahiri ayanamsa.  It never changes: the engine functions are pure.      *)

\* precise_julian_day of a candidate time given in minutes.
candidate_julian_day(minutes) == Rat(minutes, 1440)

\* precise_julian_day of an event date ('%Y-%m-%d', 0h UTC) given in days.
event_julian_day(days) == R(days)

\* The sky at a candidate's Julian day.
SkyAtBirth(jd) ==
    IF RatLT(jd, candidate_julian_day(ephemeris.switch))
    THEN ephemeris.before ELSE ephemeris.after

enhanced_sun_longitude(jd) == SkyAtBirth(jd).sun
enhanced_moon_longitude(jd) == SkyAtBirth(jd).moon
\* enhanced_planetary_positions(event_jd)['jupiter'] and ['saturn']
transit_positions(event_jd) == ephemeris.transits[event_jd[1]]
\* calculate_ayanamsa(jd, 'LAHIRI') at a candidate time and at an event date
birth_ayanamsa(jd) == SkyAtBirth(jd).ayanamsa
event_ayanamsa(event_jd) == ephemeris.transits[event_jd[1]].ayanamsa

\* tropical_to_sidereal: (tropical_longitude - ayanamsa) % 360
tropical_to_sidereal(tropical_longitude, ayanamsa) ==
    RatMod(RatSub(tropical_longitude, ayanamsa), R(360))

\* _calculate_local_sidereal_time: (theta0 + longitude) % 360
calculate_local_sidereal_time(jd, longitude) ==
    RatMod(RatAdd(SkyAtBirth(jd).theta0, longitude), R(360))

\* _calculate_candidate_chart
calculate_candidate_chart(jd, latitude, longitude) ==
    LET ayanamsa_value == birth_ayanamsa(jd)
        sun == tropical_to_sidereal(enhanced_sun_longitude(jd), ayanamsa_value)
        moon == tropical_to_sidereal(enhanced_moon_longitude(jd), ayanamsa_value)
        lst == calculate_local_sidereal_time(jd, longitude)
    IN  [julian_day |-> jd,
         ayanamsa |-> ayanamsa_value,
         planets_sidereal |-> [sun |-> sun, moon |-> moon],
         moon_longitude |-> moon,
         ascendant |-> RatMod(RatAdd(lst, RatDiv(latitude, R(4))), R(360))]

-----------------------------------------------------------------------------
(* The four scoring methods, the composite score and the confidence.       *)

\* Event-planet correlations; a type outside the table has no entry.
event_correlations ==
    [marriage |-> {"venus", "jupiter", "moon"},
     career |-> {"sun", "jupiter", "saturn", "mercury"},
     education |-> {"jupiter", "mercury", "sun"},
     health |-> {"sun", "moon", "mars"},
     travel |-> {"jupiter", "mercury", "moon"},
     property |-> {"mars", "saturn", "moon"},
     children |-> {"jupiter", "sun"},
     death_family |-> {"saturn", "mars"},
     accident |-> {"mars", "saturn"},
     spiritual |-> {"jupiter", "moon"}]

\* event.get('importance', 0.7)
importance_of(event) ==
    IF "importance" \in DOMAIN event THEN event.importance ELSE Rat(7, 10)

\* (event_jd - birth_jd) / 365.25
years_since_birth(chart, event) ==
    RatDiv(RatSub(event_julian_day(event.date), chart.julian_day), Rat(1461, 4))

\* The score one event adds in _score_dasha_events (lines 201-220).
dasha_event_score(chart, event) ==
    LET running_dasha ==
            calculate_running_dasha(chart.moon_longitude, years_since_birth(chart, event))
    IN  IF event.type \in DOMAIN event_correlations
        THEN IF running_dasha \in event_correlations[event.type]
             THEN RatAdd(Rat(8, 10), RatMul(importance_of(event), Rat(2, 10)))
             ELSE Rat(3, 10)
        ELSE Rat(5, 10)

\* total_score: the sum of a list of per-event scores
RECURSIVE SumOf(_)
SumOf(values) ==
    IF values = <<>> THEN R(0) ELSE RatAdd(Head(values), SumOf(Tail(values)))

\* _score_dasha_events
score_dasha_events(chart, events) ==
    IF events = <<>> THEN Rat(1, 2)
    ELSE RatDiv(SumOf([k \in 1..Len(events) |-> dasha_event_score(chart, events[k])]),
                R(Len(events)))

\* _is_major_aspect
is_major_aspect(pos1, pos2, orb) ==
    LET d == RatAbs(RatSub(pos1, pos2))
        sep == IF RatGT(d, R(180)) THEN RatSub(R(360), d) ELSE d
    IN  \E aspect_angle \in {0, 60, 90, 120, 180} :
            RatLE(RatAbs(RatSub(sep, R(aspect_angle))), orb)

\* The number of natal points of a list that a transit position aspects.
RECURSIVE Hits(_, _)
Hits(transit, natal_points) ==
    IF natal_points = <<>> THEN 0
    ELSE (IF is_major_aspect(transit, Head(natal_points), R(2)) THEN 1 ELSE 0)
         + Hits(transit, Tail(natal_points))

\* The aspect_score of one event in _score_transit_timing (lines 277-311),
\* capped at 1.0.
transit_event_score(chart, event) ==
    LET event_jd == event_julian_day(event.date)
        ayanamsa == event_ayanamsa(event_jd)
        transit_jupiter_sidereal ==
            RatMod(RatSub(transit_positions(event_jd).jupiter, ayanamsa), R(360))
        transit_saturn_sidereal ==
            RatMod(RatSub(transit_positions(event_jd).saturn, ayanamsa), R(360))
        natal_sun == chart.planets_sidereal.sun
        natal_moon == chart.planets_sidereal.moon
        ascendant == chart.ascendant
        jupiter_score ==
            IF event.type \in {"marriage", "career", "education", "children"}
            THEN RatMul(Rat(3, 10),
                        R(Hits(transit_jupiter_sidereal, <<natal_sun, natal_moon, ascendant>>)))
            ELSE R(0)
        saturn_score ==
            IF event.type \in {"career", "health", "death_family", "property"}
            THEN RatMul(Rat(25, 100),
                        R(Hits(transit_saturn_sidereal, <<natal_sun, natal_moon>>)))
            ELSE R(0)
    IN  RatMin(RatAdd(jupiter_score, saturn_score), R(1))

\* _score_transit_timing
score_transit_timing(chart, events) ==
    IF events = <<>> THEN Rat(1, 2)
    ELSE RatDiv(SumOf([k \in 1..Len(events) |-> transit_event_score(chart, events[k])]),
                R(Len(events)))

\* Personality traits by ascendant sign, 0 = Aries .. 11 = Pisces.
sign_traits ==
    <<{"energetic", "impulsive", "leadership", "athletic", "direct"},
      {"stable", "practical", "stubborn", "artistic", "patient"},
      {"communicative", "versatile", "curious", "restless", "witty"},
      {"emotional", "nurturing", "moody", "protective", "intuitive"},
      {"confident", "dramatic", "generous", "prideful", "creative"},
      {"analytical", "perfectionist", "helpful", "critical", "precise"},
      {"diplomatic", "charming", "indecisive", "harmonious", "social"},
      {"intense", "mysterious", "passionate", "secretive", "transformative"},
      {"adventurous", "philosophical", "optimistic", "direct", "freedom_loving"},
      {"ambitious", "disciplined", "serious", "responsible", "structured"},
      {"innovative", "eccentric", "humanitarian", "detached", "progressive"},
      {"intuitive", "dreamy", "compassionate", "sensitive", "artistic"}>>

\* The match_score accumulated over personality.items() (lines 344-353);
\* personality is the list of (trait, has_trait) items.
RECURSIVE match_score(_, _)
match_score(expected_traits, personality) ==
    IF personality = <<>> THEN R(0)
    ELSE LET trait == Head(personality)[1]
             has_trait == Head(personality)[2]
             gain == IF trait \in expected_traits
                     THEN (IF has_trait THEN R(1) ELSE Rat(-1, 2))
                     ELSE (IF ~has_trait THEN Rat(2, 10) ELSE R(0))
         IN  RatAdd(gain, match_score(expected_traits, Tail(personality)))

\* _score_ascendant_traits
score_ascendant_traits(chart, personality) ==
    IF personality = <<>> THEN Rat(1, 2)
    ELSE LET ascendant_sign == RatFloorDiv(chart.ascendant, R(30))
             expected_traits ==
                 IF ascendant_sign \in 0..11 THEN sign_traits[ascendant_sign + 1] ELSE {}
             total_traits == Len(personality)
         IN  RatMax(R(0), RatMin(R(1),
                 RatDiv(RatAdd(RatDiv(match_score(expected_traits, personality),
                                      R(total_traits)), R(1)), R(2))))

\* The event types with a house correlation.
house_correlations ==
    {"marriage", "career", "education", "children", "health", "property", "travel"}

house_event_score(chart, event) ==
    IF event.type \in house_correlations THEN Rat(6, 10) ELSE Rat(4, 10)

\* _score_house_events
score_house_events(chart, events) ==
    IF events = <<>> THEN Rat(1, 2)
    ELSE RatDiv(SumOf([k \in 1..Len(events) |-> house_event_score(chart, events[k])]),
                R(Len(events)))

\* The scores dict built at lines 92-97.
method_scores(chart, events, personality) ==
    [dasha_events |-> score_dasha_events(chart, events),
     transit_timing |-> score_transit_timing(chart, events),
     ascendant_traits |-> score_ascendant_traits(chart, personality),
     house_events |-> score_house_events(chart, events)]

composite_of_equal_weights(scores) ==
    RatDiv(RatAdd(RatAdd(scores.dasha_events, scores.transit_timing),
                  RatAdd(scores.ascendant_traits, scores.house_events)), R(4))

\* The composite score of lines 100-105.
composite_of(scores) ==
    RatAdd(RatAdd(RatAdd(RatMul(scores.dasha_events, Rat(35, 100)),
                         RatMul(scores.transit_timing, Rat(25, 100))),
                  RatMul(scores.ascendant_traits, Rat(20, 100))),
           RatMul(scores.house_events, Rat(20, 100)))

confidence_thresholds == [HIGH |-> Rat(85, 100), MEDIUM |-> Rat(65, 100), LOW |-> Rat(45, 100)]

RatSquare(x) == RatMul(x, x)

\* score_variance of _calculate_confidence (line 412)
score_variance(composite_score, scores) ==
    RatDiv(RatAdd(RatAdd(RatSquare(RatSub(scores.dasha_events, composite_score)),
                         RatSquare(RatSub(scores.transit_timing, composite_score))),
                  RatAdd(RatSquare(RatSub(scores.ascendant_traits, composite_score)),
                         RatSquare(RatSub(scores.house_events, composite_score)))),
           R(4))

calculate_confidence_no_bonus(composite_score, scores) ==
    IF RatGE(composite_score, confidence_thresholds.HIGH) THEN "HIGH"
    ELSE IF RatGE(composite_score, confidence_thresholds.MEDIUM) THEN "MEDIUM"
    ELSE "LOW"

\* _calculate_confidence
calculate_confidence(composite_score, scores) ==
    LET consistency_bonus ==
            IF RatLT(score_variance(composite_score, scores), Rat(5, 100))
            THEN Rat(1, 10) ELSE R(0)
        adjusted_score == RatAdd(composite_score, consistency_bonus)
    IN  IF RatGE(adjusted_score, confidence_thresholds.HIGH) THEN "HIGH"
        ELSE IF RatGE(adjusted_score, confidence_thresholds.MEDIUM) THEN "MEDIUM"
        ELSE "LOW"

\* The body of the scoring loop for one candidate time (lines 86-114).
score_candidate(candidate_time, latitude, longitude, events, personality) ==
    LET candidate_jd == candidate_julian_day(candidate_time)
        chart == calculate_candidate_chart(candidate_jd, latitude, longitude)
        scores == method_scores(chart, events, personality)
        composite_score == composite_of(scores)
    IN  [time |-> candidate_time,
         julian_day |-> candidate_jd,
         chart |-> chart,
         scores |-> scores,
         composite_score |-> composite_score,
         confidence |-> calculate_confidence(composite_score, scores)]

-----------------------------------------------------------------------------
(* Sample skies, events and personalities.                                 *)

\* What the engine gives at a candidate time: tropical Sun and Moon, the
\* Greenwich sidereal angle and the Lahiri ayanamsa.
SkyVirgo == [sun |-> R(124), moon |-> R(64), theta0 |-> R(160), ayanamsa |-> R(24)]
SkyLibra == [sun |-> R(124), moon |-> Rat(212, 3), theta0 |-> R(190), ayanamsa |-> R(24)]
SkyWrap == [sun |-> R(23), moon |-> Rat(47, 2), theta0 |-> Rat(719, 2), ayanamsa |-> R(24)]
BirthSkies == {SkyVirgo, SkyLibra, SkyWrap}
\* Two skies that differ in the sidereal angle only: Jupiter's transit of an
\* event date aspects Sun, Moon and ascendant under both, the ascendant is in
\* Virgo under the first and in Taurus under the second.
SkyAscVirgo == [sun |-> R(64), moon |-> R(124), theta0 |-> R(160), ayanamsa |-> R(24)]
SkyAscTaurus == [sun |-> R(64), moon |-> R(124), theta0 |-> R(40), ayanamsa |-> R(24)]

\* What the engine gives at the event dates (days after the birth date):
\* tropical Jupiter and Saturn and the ayanamsa.
EventDates == {2922, 5479}
TransitTable ==
    [d \in EventDates |->
        IF d = 2922 THEN [jupiter |-> R(244), saturn |-> R(124), ayanamsa |-> R(24)]
        ELSE [jupiter |-> R(50), saturn |-> R(10), ayanamsa |-> R(24)]]

\* Well-formed life events: a date, a type, and an importance in [0,1] or none.
EventSamples ==
    {[date |-> d, type |-> t, importance |-> R(i)] :
        d \in EventDates, t \in {"marriage", "career"}, i \in {0, 1}}
    \cup {[date |-> d, type |-> "health", importance |-> Rat(1, 2)] : d \in EventDates}
    \cup {[date |-> d, type |-> "relocation", importance |-> R(1)] : d \in EventDates}
    \cup {[date |-> 2922, type |-> "marriage"]}

\* personality.items(): lists of (trait, has_trait).
PersonalitySamples ==
    {<<>>,
     <<<<"analytical", TRUE>>>>,
     <<<<"analytical", FALSE>>, <<"dreamy", FALSE>>>>,
     <<<<"energetic", TRUE>>, <<"analytical", TRUE>>, <<"charming", FALSE>>>>}

\* All lists of length at most n over a set.
RECURSIVE SeqsUpTo(_, _)
SeqsUpTo(S, n) ==
    IF n = 0 THEN {<<>>}
    ELSE LET shorter == SeqsUpTo(S, n - 1)
         IN  shorter \cup {Append(q, x) : q \in {r \in shorter : Len(r) = n - 1}, x \in S}

-----------------------------------------------------------------------------
(* Scoring one candidate: the body of the scoring loop, and a direct call  *)
(* of _calculate_confidence.                                               *)

\* Bounds of the scoring inputs.
MaxScoreEvents == 2
ScoreGrid == 4

\* Method scores on a grid of 1/ScoreGrid in [0, 1].
GridScores == {Rat(k, ScoreGrid) : k \in 0..ScoreGrid}

ScoreInit ==
    \/ /\ s_pc = "score"
       /\ \E sky \in BirthSkies :
             ephemeris = [switch |-> 0, before |-> sky, after |-> sky,
                          transits |-> TransitTable]
       /\ s_input \in {[time |-> 720, latitude |-> R(0), longitude |-> R(0)]}
       /\ s_events \in SeqsUpTo(EventSamples, MaxScoreEvents)
       /\ s_personality \in PersonalitySamples
       /\ s_candidate = <<>>
    \/ /\ s_pc = "confidence"
       /\ ephemeris = <<>>
       /\ s_input = <<>> /\ s_events = <<>> /\ s_personality = <<>>
       /\ \E d \in GridScores, t \in GridScores, a \in GridScores, h \in GridScores :
             LET scores == [dasha_events |-> d, transit_timing |-> t,
                            ascendant_traits |-> a, house_events |-> h]
             IN  s_candidate = [scores |-> scores, composite_score |-> composite_of(scores)]

\* Lines 86-114 for one candidate time.
ScoreCandidate ==
    /\ s_pc = "score"
    /\ s_candidate' = score_candidate(s_input.time, s_input.latitude, s_input.longitude,
                                      s_events, s_personality)
    /\ s_pc' = "done"
    /\ UNCHANGED <<s_input, s_events, s_personality>>
    /\ UNCHANGED <<ephemeris, notScore>>

\* _calculate_confidence(composite_score, scores) called on its own.
ConfidenceCall ==
    /\ s_pc = "confidence"
    /\ s_candidate' =
          [scores |-> s_candidate.scores,
           composite_score |-> s_candidate.composite_score,
           confidence |-> calculate_confidence(s_candidate.composite_score, s_candidate.scores)]
    /\ s_pc' = "done"
    /\ UNCHANGED <<s_input, s_events, s_personality>>
    /\ UNCHANGED <<ephemeris, notScore>>

-----------------------------------------------------------------------------
(* ProfessionalAstrologyEngine aspect detection.                           *)

\* major_aspects of _calculate_precise_aspects, in the dict's order.
precise_major_aspects_wide ==
    <<[name |-> "conjunction", exact_angle |-> 0, orb |-> 6],
      [name |-> "opposition", exact_angle |-> 180, orb |-> 6],
      [name |-> "trine", exact_angle |-> 120, orb |-> 5],
      [name |-> "square", exact_angle |-> 90, orb |-> 25],
      [name |-> "sextile", exact_angle |-> 60, orb |-> 3]>>

precise_major_aspects ==
    <<[name |-> "conjunction", exact_angle |-> 0, orb |-> 6],
      [name |-> "opposition", exact_angle |-> 180, orb |-> 6],
      [name |-> "trine", exact_angle |-> 120, orb |-> 5],
      [name |-> "square", exact_angle |-> 90, orb |-> 5],
      [name |-> "sextile", exact_angle |-> 60, orb |-> 3]>>

\* major_aspects of _calculate_aspects.
standard_major_aspects ==
    <<[name |-> "conjunction", exact_angle |-> 0, orb |-> 8],
      [name |-> "opposition", exact_angle |-> 180, orb |-> 8],
      [name |-> "trine", exact_angle |-> 120, orb |-> 6],
      [name |-> "square", exact_angle |-> 90, orb |-> 6],
      [name |-> "sextile", exact_angle |-> 60, orb |-> 4]>>

\* PLANETS: the keys of planetary_data in insertion order, and their names.
planet_keys ==
    <<"sun", "moon", "mercury", "venus", "mars", "jupiter", "saturn",
      "uranus", "neptune", "pluto">>
PLANETS ==
    [sun |-> "Sun", moon |-> "Moon", mercury |-> "Mercury", venus |-> "Venus",
     mars |-> "Mars", jupiter |-> "Jupiter", saturn |-> "Saturn",
     uranus |-> "Uranus", neptune |-> "Neptune", pluto |-> "Pluto"]

separation_unfolded(p1_lon, p2_lon) == RatAbs(RatSub(p1_lon, p2_lon))

\* separation = abs(p1_lon - p2_lon); if separation > 180: 360 - separation
separation(p1_lon, p2_lon) ==
    LET d == RatAbs(RatSub(p1_lon, p2_lon))
    IN  IF RatGT(d, R(180)) THEN RatSub(R(360), d) ELSE d

\* 'exact' if orb_difference < 1 else 'close' if orb_difference < 3 else 'wide'
strength(orb_difference) ==
    IF RatLT(orb_difference, R(1)) THEN "exact"
    ELSE IF RatLT(orb_difference, R(3)) THEN "close" ELSE "wide"

\* The inner for loop over major_aspects for one pair of planets: the
\* aspects appended, in the order of the table.
RECURSIVE PairAspects(_, _, _, _, _)
PairAspects(preset, table, k, planet1, planet2) ==
    IF k > Len(table) THEN <<>>
    ELSE LET sep == separation(planet1.longitude, planet2.longitude)
             orb_difference == RatAbs(RatSub(sep, R(table[k].exact_angle)))
             found ==
                 IF preset = "precise"
                 THEN [planet1 |-> planet1.name, planet2 |-> planet2.name,
                       aspect |-> table[k].name, orb |-> orb_difference,
                       strength |-> strength(orb_difference), precision |-> "enhanced"]
                 ELSE [planet1 |-> planet1.name, planet2 |-> planet2.name,
                       aspect |-> table[k].name, orb |-> orb_difference,
                       precision |-> "standard"]
         IN  (IF RatLE(orb_difference, R(table[k].orb)) THEN <<found>> ELSE <<>>)
             \o PairAspects(preset, table, k + 1, planet1, planet2)

major_aspects(preset) ==
    IF preset = "precise" THEN precise_major_aspects ELSE standard_major_aspects

\* Bounds of the aspect inputs.
MaxBodies == 3
LonDenominator == 1

\* Longitudes in [0, 360) on a grid of 1/LonDenominator degrees.
AllLons == {Rat(k, LonDenominator) : k \in 0..(360 * LonDenominator - 1)}
FewLons == {R(10), R(100), R(355)}

\* planetary_data for n bodies: the second body sweeps the grid.
PlanetaryData(n) ==
    {[i \in 1..n |-> [name |-> PLANETS[planet_keys[i]],
                      longitude |-> IF i = 2 THEN y ELSE f[i]]] :
        y \in AllLons, f \in [1..n -> FewLons]}

AspectInit ==
    /\ a_pc = "loop"
    /\ a_preset \in {"precise", "standard"}
    /\ \E n \in 2..MaxBodies : a_planets \in PlanetaryData(n)
    /\ a_i = 0
    /\ a_j = 1
    /\ a_aspects = <<>>
    /\ a_examined = <<>>

\* One pass of the inner loop "for planet2 in planet_list[i+1:]": the pair
\* (planet_list[i], planet_list[j]) is examined and its aspects appended.
AspectPair ==
    /\ a_pc = "loop"
    /\ a_i < Len(a_planets) /\ a_j < Len(a_planets)
    /\ a_aspects' = a_aspects \o
           PairAspects(a_preset, major_aspects(a_preset), 1,
                       a_planets[a_i + 1], a_planets[a_j + 1])
    /\ a_examined' = Append(a_examined, <<a_i, a_j>>)
    /\ IF a_j + 1 < Len(a_planets)
       THEN a_j' = a_j + 1 /\ UNCHANGED a_i
       ELSE a_i' = a_i + 1 /\ a_j' = a_i + 2
    /\ UNCHANGED <<a_pc, a_preset, a_planets>>
    /\ UNCHANGED <<ephemeris, notAspects>>

\* Both loops are exhausted: return aspects.
AspectReturn ==
    /\ a_pc = "loop"
    /\ a_j >= Len(a_planets)
    /\ a_pc' = "done"
    /\ UNCHANGED <<a_preset, a_planets, a_i, a_j, a_aspects, a_examined>>
    /\ UNCHANGED <<ephemeris, notAspects>>

-----------------------------------------------------------------------------
(* ProfessionalAstrologyEngine house cusps.                                *)
(*                                                                         *)
(* x % 360 on floats: for x >= 0 the remainder is exact; for x < 0 Python  *)
(* adds 360 to the negative remainder, and that sum is rounded, so a       *)
(* remainder closer to 0 than half the spacing of the floats below 360     *)
(* gives 360.0 itself.  HalfUlp stands for that half spacing (2^-46 in     *)
(* binary64).  It is taken far coarser here, and the inputs that stand for *)
(* values next to zero are scaled with it, so that all values stay within  *)
(* the integers of the model checker.                                      *)

\* Python's None where a float or a tzinfo is optional
None == <<>>

HalfUlp == Rat(1, 64)

\* x % m on floats
FloatMod(x, m) ==
    LET r == RatMod(x, m)
    IN  IF RatLT(x, R(0)) /\ RatGT(r, RatSub(m, HalfUlp)) THEN m ELSE r

\* cos at 0, 15, ..., 90 degrees, rounded to eighths; between these angles
\* the cosine is interpolated.
CosTable == <<R(1), R(1), Rat(7, 8), Rat(3, 4), Rat(1, 2), Rat(1, 4), R(0)>>

\* cos on [0, 90]
CosQuadrant(x) ==
    LET k == RatFloorDiv(x, R(15))
        lo == CosTable[k + 1]
        hi == CosTable[IF k < 6 THEN k + 2 ELSE 7]
        t == RatDiv(RatSub(x, R(15 * k)), R(15))
    IN  RatAdd(lo, RatMul(t, RatSub(hi, lo)))

\* math.cos(math.radians(x))
CosDeg(x) ==
    LET a == RatMod(x, R(360))
        b == IF RatGT(a, R(180)) THEN RatSub(R(360), a) ELSE a
    IN  IF RatLE(b, R(90)) THEN CosQuadrant(b)
        ELSE RatNeg(CosQuadrant(RatSub(R(180), b)))

\* math.sin(math.radians(x)) for x in [-90, 90]: linear up to 15 degrees
\* (sin 15 = 1/4), cos(90 - x) beyond.
SinDeg(x) ==
    IF RatLE(RatAbs(x), R(15)) THEN RatDiv(x, R(60))
    ELSE IF RatLT(x, R(0)) THEN RatNeg(CosDeg(RatAdd(R(90), x)))
    ELSE CosDeg(RatSub(R(90), x))

ZODIAC_SIGNS ==
    <<"Aries", "Taurus", "Gemini", "Cancer", "Leo", "Virgo",
      "Libra", "Scorpio", "Sagittarius", "Capricorn", "Aquarius", "Pisces">>

\* lst_degrees = (theta0 + longitude) % 360
lst_degrees(theta0, longitude) == FloatMod(RatAdd(theta0, longitude), R(360))

\* lat_correction = sin(latitude) * 3 * cos(base_longitude)  (line 696)
lat_correction(latitude, base_longitude) ==
    RatMul(RatMul(SinDeg(latitude), R(3)), CosDeg(base_longitude))

\* house_longitude = (base_longitude + lat_correction) % 360  (line 697)
placidus_approx(base_longitude, latitude) ==
    FloatMod(RatAdd(base_longitude, lat_correction(latitude, base_longitude)), R(360))

\* house_longitude with the else branch kept for 'placidus' alone: any other
\* name gets equal houses
house_longitude_placidus_only(system, i, lst, latitude) ==
    IF system = "whole" THEN R(((RatFloorDiv(lst, R(30)) + i) % 12) * 30)
    ELSE IF system = "placidus"
    THEN CHOOSE cusp \in {placidus_approx(base_longitude, latitude) :
                             base_longitude \in {FloatMod(RatAdd(R(i * 30), lst), R(360))}} : TRUE
    ELSE FloatMod(RatAdd(lst, R(i * 30)), R(360))

\* The house_longitude of house i + 1 before the ayanamsa correction
\* (lines 689-697).  Any system other than 'equal' and 'whole' takes the
\* else branch; base_longitude is computed once and then used.
house_longitude(system, i, lst, latitude) ==
    IF system = "equal" THEN FloatMod(RatAdd(lst, R(i * 30)), R(360))
    ELSE IF system = "whole" THEN R(((RatFloorDiv(lst, R(30)) + i) % 12) * 30)
    ELSE CHOOSE cusp \in {placidus_approx(base_longitude, latitude) :
                             base_longitude \in {FloatMod(RatAdd(R(i * 30), lst), R(360))}} : TRUE

\* Lines 699-701: the ayanamsa correction, when a value is passed.
ayanamsa_corrected(longitude, ayanamsa_value) ==
    IF ayanamsa_value = None THEN longitude
    ELSE FloatMod(RatSub(longitude, ayanamsa_value), R(360))

\* sign_index = int(house_longitude // 30)  (line 703)
sign_index_of(longitude) == RatFloorDiv(longitude, R(30))

\* The dictionary appended for house i + 1 (lines 705-712); indexing
\* ZODIAC_SIGNS with a sign_index outside 0..11 raises IndexError.
house_entry(i, longitude) ==
    [house |-> i + 1,
     longitude |-> longitude,
     sign_index |-> sign_index_of(longitude),
     sign |-> IF sign_index_of(longitude) \in 0..11
              THEN ZODIAC_SIGNS[sign_index_of(longitude) + 1] ELSE "IndexError",
     degrees |-> FloatMod(longitude, R(30))]

\* The cusp of house i + 1 (lines 688-712): each value of the loop body is
\* computed once, in the order of the code.
house_cusp(args, i) ==
    CHOOSE entry \in
        {house_entry(i, corrected) :
            corrected \in
                {ayanamsa_corrected(raw, args.ayanamsa_value) :
                    raw \in {house_longitude(args.system, i,
                                             lst_degrees(args.theta0, args.longitude),
                                             args.latitude)}}} : TRUE

\* House systems: the three named ones and a name outside them.
HouseSystems == {"equal", "whole", "placidus", "koch"}

\* Latitudes in [-90, 90], one of them next to the equator on its south side.
HouseLatitudes == {R(-90), R(-30), Rat(-1, 4), R(0), R(30), R(90)}

\* The Greenwich sidereal angle theta0 of the birth instant (line 684) and
\* the geographic longitude.
Theta0Samples == {R(0), R(45), R(285), R(3900)}
HouseLongitudes == {R(0), R(75), R(-120), Rat(151, 2), Rat(-1, 128)}

\* ayanamsa_value: None in the standard tier, the computed value otherwise.
AyanamsaArguments == {None, R(24), Rat(47, 2)}

HouseInit ==
    /\ h_pc = "loop"
    /\ h_args \in [system : HouseSystems, latitude : HouseLatitudes,
                   theta0 : Theta0Samples, longitude : HouseLongitudes,
                   ayanamsa_value : AyanamsaArguments]
    /\ h_i = 0
    /\ h_houses = <<>>

\* One pass of "for i in range(12)": the cusp is appended, or indexing
\* ZODIAC_SIGNS raises IndexError.
HouseCusp ==
    /\ h_pc = "loop"
    /\ h_i < 12
    /\ LET cusp == house_cusp(h_args, h_i)
       IN  IF cusp.sign_index \in 0..11
           THEN /\ h_houses' = Append(h_houses, cusp)
                /\ h_i' = h_i + 1
                /\ UNCHANGED h_pc
           ELSE /\ h_pc' = "raised"
                /\ UNCHANGED <<h_i, h_houses>>
    /\ UNCHANGED h_args
    /\ UNCHANGED <<ephemeris, notHouses>>

\* The loop is exhausted: return houses.
HouseReturn ==
    /\ h_pc = "loop"
    /\ h_i = 12
    /\ h_pc' = "done"
    /\ UNCHANGED <<h_args, h_i, h_houses>>
    /\ UNCHANGED <<ephemeris, notHouses>>

-----------------------------------------------------------------------------
(* The converters of the two engines, one call at a time: the Julian day   *)
(* of a timestamp (EnhancedBaseEngine.precise_julian_day and               *)
(* AstrologyCalculator.julian_day), the ayanamsa and the sidereal          *)
(* longitude.  A datetime is a record of its fields; tzinfo is <<>> for a  *)
(* naive datetime and <<minutes>> for a fixed offset east of UTC.          *)

is_leap(year) == year % 4 = 0 /\ (year % 100 # 0 \/ year % 400 = 0)

days_in_month(year, month) ==
    IF month = 2 THEN (IF is_leap(year) THEN 29 ELSE 28)
    ELSE IF month \in {4, 6, 9, 11} THEN 30 ELSE 31

\* The calendar date one day before / after a date.
previous_day(dt) ==
    IF dt.day > 1 THEN [dt EXCEPT !.day = dt.day - 1]
    ELSE IF dt.month > 1
         THEN [dt EXCEPT !.month = dt.month - 1,
                         !.day = days_in_month(dt.year, dt.month - 1)]
         ELSE [dt EXCEPT !.year = dt.year - 1, !.month = 12, !.day = 31]

next_day(dt) ==
    IF dt.day < days_in_month(dt.year, dt.month) THEN [dt EXCEPT !.day = dt.day + 1]
    ELSE IF dt.month < 12 THEN [dt EXCEPT !.month = dt.month + 1, !.day = 1]
         ELSE [dt EXCEPT !.year = dt.year + 1, !.month = 1, !.day = 1]

\* dt.astimezone(timezone.utc) for an aware datetime whose offset is less
\* than a day: the same instant with the fields of UTC.
astimezone_utc(dt) ==
    LET total == dt.hour * 60 + dt.minute - dt.tzinfo[1]
        date == IF total < 0 THEN previous_day(dt)
                ELSE IF total >= 1440 THEN next_day(dt) ELSE dt
    IN  [date EXCEPT !.hour = (total % 1440) \div 60,
                     !.minute = total % 60,
                     !.tzinfo = <<0>>]

\* dt.replace(tzinfo=timezone.utc)
replace_tzinfo_utc(dt) == [dt EXCEPT !.tzinfo = <<0>>]

\* jdn = day + (153 * m + 2) // 5 + 365 * y + y // 4 - y // 100 + y // 400 - 32045
julian_day_number(dt) ==
    LET a == (14 - dt.month) \div 12
        y == dt.year + 4800 - a
        m == dt.month + 12 * a - 3
    IN  dt.day + (153 * m + 2) \div 5 + 365 * y + y \div 4 - y \div 100
        + y \div 400 - 32045

\* julian_day returning jdn + time_fraction, a day count from midnight
julian_day_without_half(dt) ==
    LET time_fraction ==
            RatDiv(RatAdd(RatAdd(R(dt.hour), Rat(dt.minute, 60)), Rat(dt.second, 3600)),
                   R(24))
    IN  RatAdd(R(julian_day_number(dt)), time_fraction)

\* AstrologyCalculator.julian_day: the fields of dt as they are, whatever
\* its tzinfo.
julian_day(dt) ==
    LET time_fraction ==
            RatDiv(RatAdd(RatAdd(R(dt.hour), Rat(dt.minute, 60)), Rat(dt.second, 3600)),
                   R(24))
    IN  RatSub(RatAdd(R(julian_day_number(dt)), time_fraction), Rat(1, 2))

\* EnhancedBaseEngine.precise_julian_day: dt is first brought to UTC.  The
\* microsecond term is dt.microsecond / 3600000000.
precise_julian_day(dt) ==
    LET utc == IF dt.tzinfo = None THEN replace_tzinfo_utc(dt)
               ELSE IF dt.tzinfo # <<0>> THEN astimezone_utc(dt) ELSE dt
        time_fraction ==
            RatDiv(RatAdd(RatAdd(RatAdd(R(utc.hour), Rat(utc.minute, 60)),
                                 Rat(utc.second, 3600)),
                          RatDiv(Rat(utc.microsecond, 3600), R(1000000))),
                   R(24))
    IN  RatSub(RatAdd(R(julian_day_number(utc)), time_fraction), Rat(1, 2))

\* The base values of calculate_ayanamsa at J2000 (23.85208333, 21.94613889,
\* 23.85208333 degrees) and the yearly rate 50.290966 / 3600, rounded to
\* hundredths of a degree and to 50 arc seconds a year.
ayanamsa_base == [LAHIRI |-> Rat(2385, 100), RAMAN |-> Rat(2195, 100), KP |-> Rat(2385, 100)]
ayanamsa_rate == Rat(50, 3600)

\* ayanamsa_values.get(system, ayanamsa_values['LAHIRI'])
ayanamsa_get(ayanamsa_values, system) ==
    IF system \in DOMAIN ayanamsa_values THEN ayanamsa_values[system]
    ELSE ayanamsa_values["LAHIRI"]

\* EnhancedBaseEngine.calculate_ayanamsa
calculate_ayanamsa(jd, system) ==
    LET years_since_2000 == RatDiv(RatSub(jd, R(2451545)), Rat(36525, 100))
        ayanamsa_values ==
            [s \in DOMAIN ayanamsa_base |->
                RatAdd(ayanamsa_base[s], RatMul(ayanamsa_rate, years_since_2000))]
    IN  ayanamsa_get(ayanamsa_values, system)

\* EnhancedBaseEngine.tropical_to_sidereal with its own ayanamsa lookup;
\* the remainder is the float one.
tropical_to_sidereal_system(tropical_longitude, jd, ayanamsa_system) ==
    FloatMod(RatSub(tropical_longitude, calculate_ayanamsa(jd, ayanamsa_system)), R(360))

\* planet_formulas of ProfessionalAstrologyEngine._calculate_planet_longitude:
\* (base, rate), the daily rates rounded to thousandths of a degree.
planet_formulas ==
    [mercury |-> <<Rat(25225, 100), Rat(4092, 1000)>>,
     venus |-> <<Rat(18198, 100), Rat(1602, 1000)>>,
     mars |-> <<Rat(35543, 100), Rat(524, 1000)>>,
     jupiter |-> <<Rat(3435, 100), Rat(83, 1000)>>,
     saturn |-> <<Rat(5008, 100), Rat(33, 1000)>>,
     uranus |-> <<Rat(31323, 100), Rat(12, 1000)>>,
     neptune |-> <<Rat(30435, 100), Rat(6, 1000)>>,
     pluto |-> <<Rat(23892, 100), Rat(4, 1000)>>]

\* ProfessionalAstrologyEngine._calculate_planet_longitude (basic linear
\* model): (base + rate * n) % 360, and 0.0 for a planet it does not know.
calculate_planet_longitude(jd, planet) ==
    IF planet \in DOMAIN planet_formulas
    THEN FloatMod(RatAdd(planet_formulas[planet][1],
                         RatMul(planet_formulas[planet][2], RatSub(jd, R(2451545)))),
                  R(360))
    ELSE R(0)

\* Planet ids of the table and ids outside it; Julian days before and after
\* the epoch, whole days and half days.
PlanetIds == DOMAIN planet_formulas \cup {"ceres", "sun"}
PlanetJulianDays == {R(2351545), R(2451483), R(2451545), Rat(4903091, 2), R(2460676)}

\* Timestamps: dates around the ends of a year and of a leap February, with
\* no offset, UTC, and offsets east and west of it.
DatetimeSamples ==
    {[year |-> d[1], month |-> d[2], day |-> d[3], hour |-> h, minute |-> mi,
      second |-> 0, microsecond |-> 0, tzinfo |-> tz] :
        d \in {<<1999, 12, 31>>, <<2000, 1, 1>>, <<2000, 2, 29>>, <<2000, 3, 1>>},
        h \in {0, 7, 12, 17, 23}, mi \in {0, 30},
        tz \in {None, <<0>>, <<330>>, <<-300>>}}

\* Julian days a whole number of Julian years from J2000, the three named
\* ayanamsa systems and names outside them.
JulianDaySamples ==
    {RatAdd(R(2451545), RatMul(R(k), Rat(36525, 100))) : k \in {-72, 0, 18, 36}}
AyanamsaSystems == {"LAHIRI", "RAMAN", "KP", "FAGAN", ""}

\* Tropical longitudes in [0, 360); for each Julian day and system also the
\* longitude next below the ayanamsa itself.
TropicalSamples == {R(0), R(10), R(100), Rat(719, 2)}
NextBelow(x) == RatSub(x, Rat(1, 128))

\* House calls: the else branch under its own name and under names outside
\* the three the code knows.
HouseCallSamples ==
    [system : {"placidus", "koch", ""}, latitude : {R(-30), Rat(-1, 4), R(30)},
     theta0 : {R(0), R(45)}, longitude : {R(0), Rat(151, 2)},
     ayanamsa_value : {None, R(24)}]

\* What the trigonometric series give at the birth instant: the tropical
\* longitudes of Sun and Moon (both tiers) and of Mercury to Saturn
\* (enhanced_planetary_positions).
ChartSky ==
    [sun |-> R(280), moon |-> R(223), mercury |-> R(272), venus |-> R(241),
     mars |-> R(328), jupiter |-> R(25), saturn |-> R(40)]

\* Chart calls in both tiers: the epoch and 36 Julian years after it,
\* latitudes on the equator, at 30 and at the pole, and a sidereal angle one
\* degree before a sign boundary.
ChartCallSamples ==
    [precision_mode : {"ENHANCED", "STANDARD"},
     system : {"placidus", "equal", "whole"},
     latitude : {R(0), R(30), R(90)},
     theta0 : {R(29), R(45)},
     longitude : {R(0)},
     jd : {R(2451545), R(2464694)},
     ayanamsa_system : {"LAHIRI"}]

CallSamples ==
    {[fn |-> "calculate_professional_chart", args |-> args] : args \in ChartCallSamples}
    \cup {[fn |-> "precise_julian_day", dt |-> dt] : dt \in DatetimeSamples}
    \cup {[fn |-> "julian_day", dt |-> dt] : dt \in DatetimeSamples}
    \cup {[fn |-> "calculate_ayanamsa", jd |-> jd, system |-> s] :
            jd \in JulianDaySamples, s \in AyanamsaSystems}
    \cup {[fn |-> "calculate_enhanced_houses", args |-> args] : args \in HouseCallSamples}
    \cup {[fn |-> "calculate_planet_longitude", jd |-> jd, planet |-> planet] :
            jd \in PlanetJulianDays, planet \in PlanetIds}
    \cup UNION {{[fn |-> "tropical_to_sidereal", jd |-> jd, system |-> s,
                  tropical_longitude |-> x] :
                    x \in TropicalSamples \cup {NextBelow(calculate_ayanamsa(jd, s))}} :
                jd \in JulianDaySamples, s \in AyanamsaSystems}

\* _calculate_enhanced_houses as one call: the twelve cusps, or IndexError.
calculate_enhanced_houses(args) == [n \in 1..12 |-> house_cusp(args, n - 1)]

\* The dictionary stored for one planet: sign_index = int(longitude // 30)
\* and ZODIAC_SIGNS[sign_index], which raises IndexError outside 0..11.
planet_entry(key, name, longitude, precision) ==
    [key |-> key,
     name |-> name,
     longitude |-> longitude,
     sign_index |-> sign_index_of(longitude),
     sign |-> IF sign_index_of(longitude) \in 0..11
              THEN ZODIAC_SIGNS[sign_index_of(longitude) + 1] ELSE "IndexError",
     precision |-> precision]

\* The two loops over planet_list of _calculate_precise_aspects and
\* _calculate_aspects, from the pair (i, j) on.
RECURSIVE AspectsFrom(_, _, _, _)
AspectsFrom(preset, planets, i, j) ==
    IF i >= Len(planets) THEN <<>>
    ELSE IF j > Len(planets) THEN AspectsFrom(preset, planets, i + 1, i + 2)
    ELSE PairAspects(preset, major_aspects(preset), 1, planets[i], planets[j])
         \o AspectsFrom(preset, planets, i, j + 1)

\* AstrologyCalculator.get_ascendant: the returned string as its words.
get_ascendant(theta0, latitude, longitude) ==
    LET lst_hours == RatDiv(lst_degrees(theta0, longitude), R(15))
        ascendant_sign_index ==
            RatFloorDiv(FloatMod(RatMul(lst_hours, Rat(1, 2)), R(12)), R(1))
    IN  IF RatGT(RatAbs(latitude), R(60))
        THEN <<ZODIAC_SIGNS[ascendant_sign_index + 1], "(high", "latitude", "approximation)">>
        ELSE <<ZODIAC_SIGNS[ascendant_sign_index + 1]>>

\* The keys of planets_tropical in insertion order (lines 521-532).
enhanced_planet_keys ==
    <<"mercury", "venus", "mars", "jupiter", "saturn", "sun", "moon",
      "uranus", "neptune", "pluto">>

\* The keys of enhanced_planets in the standard tier: sun, moon and the keys
\* of get_planetary_positions.
standard_planet_keys ==
    <<"sun", "moon", "mercury", "venus", "mars", "jupiter", "saturn">>

\* _enhanced_precision_calculation
enhanced_precision_calculation(args) ==
    LET tropical(key) ==
            IF key \in {"uranus", "neptune", "pluto"}
            THEN calculate_planet_longitude(args.jd, key)
            ELSE ChartSky[key]
        ayanamsa_value == calculate_ayanamsa(args.jd, args.ayanamsa_system)
        enhanced_planets ==
            [k \in 1..Len(enhanced_planet_keys) |->
                planet_entry(enhanced_planet_keys[k], PLANETS[enhanced_planet_keys[k]],
                             tropical_to_sidereal_system(tropical(enhanced_planet_keys[k]),
                                                         args.jd, args.ayanamsa_system),
                             "enhanced")]
        houses ==
            calculate_enhanced_houses(
                [system |-> args.system, latitude |-> args.latitude,
                 theta0 |-> args.theta0, longitude |-> args.longitude,
                 ayanamsa_value |-> ayanamsa_value])
    IN  [planets |-> enhanced_planets,
         houses |-> houses,
         aspects |-> AspectsFrom("precise", enhanced_planets, 1, 2),
         sun_sign |-> enhanced_planets[6].sign,
         moon_sign |-> enhanced_planets[7].sign,
         ascendant |-> <<houses[1].sign>>,
         precision_mode |-> "ENHANCED",
         julian_day |-> args.jd]

\* _standard_calculation
standard_calculation(args) ==
    LET lon(key) ==
            IF key \in {"sun", "moon"} THEN ChartSky[key]
            ELSE calculate_planet_longitude(args.jd, key)
        enhanced_planets ==
            [k \in 1..Len(standard_planet_keys) |->
                planet_entry(standard_planet_keys[k], PLANETS[standard_planet_keys[k]],
                             lon(standard_planet_keys[k]), "standard")]
        houses ==
            calculate_enhanced_houses(
                [system |-> args.system, latitude |-> args.latitude,
                 theta0 |-> args.theta0, longitude |-> args.longitude,
                 ayanamsa_value |-> None])
    IN  [planets |-> enhanced_planets,
         houses |-> houses,
         aspects |-> AspectsFrom("standard", enhanced_planets, 1, 2),
         sun_sign |-> enhanced_planets[1].sign,
         moon_sign |-> enhanced_planets[2].sign,
         ascendant |-> get_ascendant(args.theta0, args.latitude, args.longitude),
         precision_mode |-> "STANDARD"]

\* calculate_professional_chart: the tier is the engine's precision_mode.
calculate_professional_chart(args) ==
    IF args.precision_mode = "ENHANCED" THEN enhanced_precision_calculation(args)
    ELSE standard_calculation(args)

CallInit ==
    /\ f_pc = "call"
    /\ f_call \in CallSamples
    /\ f_result = <<>>

PreciseJulianDay ==
    /\ f_pc = "call"
    /\ f_call.fn = "precise_julian_day"
    /\ f_result' = precise_julian_day(f_call.dt)
    /\ f_pc' = "returned"
    /\ UNCHANGED f_call
    /\ UNCHANGED <<ephemeris, notCall>>

JulianDay ==
    /\ f_pc = "call"
    /\ f_call.fn = "julian_day"
    /\ f_result' = julian_day(f_call.dt)
    /\ f_pc' = "returned"
    /\ UNCHANGED f_call
    /\ UNCHANGED <<ephemeris, notCall>>

CalculateAyanamsa ==
    /\ f_pc = "call"
    /\ f_call.fn = "calculate_ayanamsa"
    /\ f_result' = calculate_ayanamsa(f_call.jd, f_call.system)
    /\ f_pc' = "returned"
    /\ UNCHANGED f_call
    /\ UNCHANGED <<ephemeris, notCall>>

CalculateHouses ==
    /\ f_pc = "call"
    /\ f_call.fn = "calculate_enhanced_houses"
    /\ \E houses \in {calculate_enhanced_houses(f_call.args)} :
          IF \A n \in 1..12 : houses[n].sign_index \in 0..11
          THEN f_result' = houses /\ f_pc' = "returned"
          ELSE f_result' = <<>> /\ f_pc' = "raised"
    /\ UNCHANGED f_call
    /\ UNCHANGED <<ephemeris, notCall>>

\* A chart call: the chart, or IndexError from a sign lookup.
CalculateChart ==
    /\ f_pc = "call"
    /\ f_call.fn = "calculate_professional_chart"
    /\ \E chart \in {calculate_professional_chart(f_call.args)} :
          IF /\ \A n \in 1..12 : chart.houses[n].sign_index \in 0..11
             /\ \A k \in 1..Len(chart.planets) : chart.planets[k].sign_index \in 0..11
          THEN f_result' = chart /\ f_pc' = "returned"
          ELSE f_result' = <<>> /\ f_pc' = "raised"
    /\ UNCHANGED f_call
    /\ UNCHANGED <<ephemeris, notCall>>

PlanetLongitude ==
    /\ f_pc = "call"
    /\ f_call.fn = "calculate_planet_longitude"
    /\ f_result' = calculate_planet_longitude(f_call.jd, f_call.planet)
    /\ f_pc' = "returned"
    /\ UNCHANGED f_call
    /\ UNCHANGED <<ephemeris, notCall>>

TropicalToSidereal ==
    /\ f_pc = "call"
    /\ f_call.fn = "tropical_to_sidereal"
    /\ f_result' = tropical_to_sidereal_system(f_call.tropical_longitude, f_call.jd,
                                               f_call.system)
    /\ f_pc' = "returned"
    /\ UNCHANGED f_call
    /\ UNCHANGED <<ephemeris, notCall>>

-----------------------------------------------------------------------------
(* rectify_birth_time: one run of the handler.  Times are minutes after 0h *)
(* of the birth date.                                                      *)

\* birth_data.get('approximate_time', '12:00') parsed with '%H:%M'.
approx_datetime(data) ==
    IF "approximate_time" \in DOMAIN data THEN data.approximate_time ELSE 720

\* timedelta(hours=window_hours/2), in minutes.
half_window(window_hours) == 30 * window_hours

start_time(approx_time, window_hours) == approx_time - half_window(window_hours)
end_time(approx_time, window_hours) == approx_time + half_window(window_hours)

candidate_loop_test_exclusive(current, approx_time, window_hours) ==
    current < end_time(approx_time, window_hours)

\* The test of the while loop of _generate_time_candidates.
candidate_loop_test(current, approx_time, window_hours) ==
    current <= end_time(approx_time, window_hours)

\* A sort that puts the later of two entries of equal score first.
Placed_latest_first(list, reverse) ==
    LET n == Len(list)
        GoesFirst(x, y) == IF reverse THEN RatGT(x, y) ELSE RatLT(x, y)
        place == [i \in 1..n |->
                    1 + Cardinality({j \in 1..n :
                          \/ GoesFirst(list[j].composite_score, list[i].composite_score)
                          \/ /\ list[j].composite_score = list[i].composite_score
                             /\ j > i})]
    IN  [k \in 1..n |-> list[CHOOSE i \in 1..n : place[i] = k]]

\* list.sort(key=composite_score, reverse=...): an entry goes behind the
\* entries whose score goes first and, the sort being stable, behind the
\* earlier entries of equal score.
Placed(list, reverse) ==
    LET n == Len(list)
        GoesFirst(x, y) == IF reverse THEN RatGT(x, y) ELSE RatLT(x, y)
        place == [i \in 1..n |->
                    1 + Cardinality({j \in 1..n :
                          \/ GoesFirst(list[j].composite_score, list[i].composite_score)
                          \/ /\ list[j].composite_score = list[i].composite_score
                             /\ j < i})]
    IN  [k \in 1..n |-> list[CHOOSE i \in 1..n : place[i] = k]]

sort_by_composite_score_ascending(list) == Placed(list, FALSE)

\* scored_candidates.sort(key=lambda x: x['composite_score'], reverse=True)
sort_by_composite_score(list) == Placed(list, TRUE)

\* list[from:to] for 0 <= from <= to
PySlice(list, from, to) ==
    SubSeq(list, from + 1, IF to < Len(list) THEN to ELSE Len(list))

OneIf(condition, text) == IF condition THEN <<text>> ELSE <<>>

\* _generate_recommendations
generate_recommendations(best_candidate, all_candidates) ==
    LET confidence == best_candidate.confidence
        top_3_scores == PySlice(all_candidates, 0, 3)
        score_difference ==
            IF Len(top_3_scores) > 1
            THEN RatSub(top_3_scores[1].composite_score, top_3_scores[2].composite_score)
            ELSE R(0)
        method == best_candidate.scores
    IN  <<IF confidence = "HIGH" THEN "High confidence rectification."
          ELSE IF confidence = "MEDIUM" THEN "Moderate confidence."
          ELSE "Low confidence.">>
        \o OneIf(RatLT(score_difference, Rat(1, 10)),
                 "Multiple times show similar scores.")
        \o (IF RatGT(method.dasha_events, Rat(8, 10))
            THEN <<"Strong dasha correlation supports this timing.">>
            ELSE OneIf(RatLT(method.dasha_events, Rat(5, 10)), "Weak dasha correlation."))
        \o OneIf(RatGT(method.transit_timing, Rat(7, 10)),
                 "Transit timing supports major life events.")
        \o (IF RatGT(method.ascendant_traits, Rat(8, 10))
            THEN <<"Personality traits strongly match ascendant sign.">>
            ELSE OneIf(RatLT(method.ascendant_traits, Rat(4, 10)),
                       "Personality traits don't strongly match."))

\* The dict returned when life_events is empty.
events_required ==
    [success |-> FALSE,
     error |-> "Life events required for rectification",
     recommendation |-> "Please provide at least 3 significant life events"]

\* The dict returned at the end of a run, from the sorted list.
rectification_result(sorted, tested) ==
    LET best_candidate == sorted[1]
    IN  [success |-> TRUE,
         rectified_time |-> best_candidate.time,
         confidence |-> best_candidate.confidence,
         confidence_score |-> best_candidate.composite_score,
         method_scores |-> best_candidate.scores,
         chart |-> best_candidate.chart,
         alternatives |-> PySlice(sorted, 1, 4),
         total_candidates_tested |-> Len(tested),
         recommendations |-> generate_recommendations(best_candidate, sorted)]

\* Bounds of the runs.
MaxWindow == 1
MaxEvents == 3
\* The default of the parameter time_window_hours.
DefaultWindow == 4

WindowSamples == (-1..MaxWindow) \cup {DefaultWindow}

\* Two orders of well-formed life events, cut to every length up to MaxEvents.
EventCycles ==
    {<<[date |-> 2922, type |-> "marriage", importance |-> R(1)],
       [date |-> 5479, type |-> "career", importance |-> R(0)],
       [date |-> 2922, type |-> "health", importance |-> R(1)],
       [date |-> 5479, type |-> "relocation", importance |-> R(1)]>>,
     <<[date |-> 2922, type |-> "marriage"],
       [date |-> 2922, type |-> "career", importance |-> R(1)],
       [date |-> 5479, type |-> "marriage", importance |-> R(0)],
       [date |-> 5479, type |-> "health", importance |-> R(0)]>>}

LifeEventLists ==
    {[k \in 1..n |-> cycle[((k - 1) % Len(cycle)) + 1]] :
        cycle \in EventCycles, n \in 0..MaxEvents}

\* Locations inside and outside the ranges of latitude and longitude.
Locations ==
    {[latitude |-> R(0), longitude |-> R(0)],
     [latitude |-> R(95), longitude |-> R(10)],
     [latitude |-> R(10), longitude |-> R(-181)]}

Traits == <<<<"analytical", TRUE>>, <<"charming", FALSE>>>>

\* Birth data with and without an approximate time.
BirthDataSamples ==
    {[date |-> 0, latitude |-> l.latitude, longitude |-> l.longitude,
      personality |-> Traits] : l \in Locations}
    \cup {[date |-> 0, approximate_time |-> 1, latitude |-> l.latitude,
           longitude |-> l.longitude, personality |-> Traits] : l \in Locations}

\* Skies that change once inside the search window.
RunSkies ==
    {[switch |-> s, before |-> p[1], after |-> p[2], transits |-> TransitTable] :
        s \in {721, 747}, p \in {<<SkyVirgo, SkyLibra>>, <<SkyLibra, SkyVirgo>>,
                                  <<SkyAscTaurus, SkyAscVirgo>>}}

RunInit ==
    /\ pc = "VALIDATING_INPUT"
    /\ birth_data \in BirthDataSamples
    /\ life_events \in LifeEventLists
    /\ time_window_hours \in WindowSamples
    /\ ephemeris \in RunSkies
    /\ time_window_hours > MaxWindow =>
          /\ "approximate_time" \notin DOMAIN birth_data
          /\ birth_data.latitude = R(0)
          /\ Len(life_events) = 2
          /\ ephemeris.switch = 721
    /\ current_time = 0
    /\ candidates = <<>> /\ scored_candidates = <<>> /\ result = <<>>

\* Lines 64-77: the check of life_events and the parsing of birth_data.
Validate ==
    /\ pc = "VALIDATING_INPUT"
    /\ IF life_events = <<>>
       THEN /\ pc' = "FAILED"
            /\ result' = events_required
            /\ UNCHANGED current_time
       ELSE /\ pc' = "GENERATING_CANDIDATES"
            /\ current_time' = start_time(approx_datetime(birth_data), time_window_hours)
            /\ UNCHANGED result
    /\ UNCHANGED <<birth_data, life_events, time_window_hours, candidates, scored_candidates>>
    /\ UNCHANGED <<ephemeris, notRun>>

\* One pass of the while loop of _generate_time_candidates.
GenerateCandidate ==
    /\ pc = "GENERATING_CANDIDATES"
    /\ candidate_loop_test(current_time, approx_datetime(birth_data), time_window_hours)
    /\ candidates' = Append(candidates, current_time)
    /\ current_time' = current_time + 2
    /\ UNCHANGED <<pc, birth_data, life_events, time_window_hours, scored_candidates, result>>
    /\ UNCHANGED <<ephemeris, notRun>>

\* The while loop ends and _generate_time_candidates returns.
GenerateReturn ==
    /\ pc = "GENERATING_CANDIDATES"
    /\ ~candidate_loop_test(current_time, approx_datetime(birth_data), time_window_hours)
    /\ pc' = "SCORING_CANDIDATES"
    /\ UNCHANGED <<birth_data, life_events, time_window_hours, current_time,
                   candidates, scored_candidates, result>>
    /\ UNCHANGED <<ephemeris, notRun>>

\* One pass of the scoring loop (lines 85-114).
ScoreNext ==
    /\ pc = "SCORING_CANDIDATES"
    /\ Len(scored_candidates) < Len(candidates)
    /\ scored_candidates' =
          Append(scored_candidates,
                 score_candidate(candidates[Len(scored_candidates) + 1],
                                 birth_data.latitude, birth_data.longitude,
                                 life_events, birth_data.personality))
    /\ UNCHANGED <<pc, birth_data, life_events, time_window_hours, current_time,
                   candidates, result>>
    /\ UNCHANGED <<ephemeris, notRun>>

\* The scoring loop has gone through every candidate.
ScoreEnd ==
    /\ pc = "SCORING_CANDIDATES"
    /\ Len(scored_candidates) = Len(candidates)
    /\ pc' = "RANKING"
    /\ UNCHANGED <<birth_data, life_events, time_window_hours, current_time,
                   candidates, scored_candidates, result>>
    /\ UNCHANGED <<ephemeris, notRun>>

\* Lines 117-132: the sort, scored_candidates[0] and the returned dict; on an
\* empty list scored_candidates[0] raises IndexError.
Rank ==
    /\ pc = "RANKING"
    /\ scored_candidates' = sort_by_composite_score(scored_candidates)
    /\ IF scored_candidates = <<>>
       THEN /\ pc' = "RAISED"
            /\ result' = [raised |-> "IndexError"]
       ELSE /\ pc' = "DONE"
            /\ result' = rectification_result(scored_candidates', candidates)
    /\ UNCHANGED <<birth_data, life_events, time_window_hours, current_time, candidates>>
    /\ UNCHANGED <<ephemeris, notRun>>

-----------------------------------------------------------------------------
(* The engine object (src/engines/base_engine.py): its config, its cache   *)
(* and its performance log.  e_clock is what time.time() returns; e_call    *)
(* is the last call made on the cache, e_returned what it returned, and     *)
(* e_stored the arguments and the time of the last set_cached of each key.  *)

\* The cache TTL in seconds.
CacheTTL == 300

\* time.time() - entry['timestamp'] <= 300
cache_fresh_inclusive(entry, now) == now - entry.timestamp <= CacheTTL

\* time.time() - entry['timestamp'] < 300
cache_fresh(entry, now) == now - entry.timestamp < CacheTTL

\* del self.cache[key]
DictWithout(dict, key) == [k \in (DOMAIN dict) \ {key} |-> dict[k]]

\* self.cache[key] = entry
DictWith(dict, key, entry) ==
    [k \in (DOMAIN dict) \cup {key} |-> IF k = key THEN entry ELSE dict[k]]

\* get_cached: the value returned and the cache it leaves.
get_cached(config, cache, key, now) ==
    IF ~config.cache_enabled THEN [returned |-> None, cache |-> cache]
    ELSE IF key \in DOMAIN cache
    THEN IF cache_fresh(cache[key], now)
         THEN [returned |-> cache[key].value, cache |-> cache]
         ELSE [returned |-> None, cache |-> DictWithout(cache, key)]
    ELSE [returned |-> None, cache |-> cache]

\* set_cached: the cache it leaves.
set_cached(config, cache, key, value, now) ==
    IF config.cache_enabled
    THEN DictWith(cache, key, [value |-> value, timestamp |-> now])
    ELSE cache

\* Bound of the clock, and the steps it is advanced by.
MaxClock == 600
ClockSteps == {150, 299, 300}

CacheKeys == {"sun_2451545", "moon_2451545"}
\* Cached calculation results: lists of longitudes.
CacheValues == {<<100>>, <<200>>}

\* The engine after __init__.
EngineInit ==
    /\ e_config \in {[cache_enabled |-> b] : b \in BOOLEAN}
    /\ e_cache = <<>>
    /\ e_performance_log = <<>>
    /\ e_clock = 0
    /\ e_call = [op |-> "init"]
    /\ e_returned = None
    /\ e_stored = <<>>

\* A call of set_cached(key, value).
SetCached ==
    /\ \E key \in CacheKeys, value \in CacheValues :
          /\ e_cache' = set_cached(e_config, e_cache, key, value, e_clock)
          /\ e_stored' = DictWith(e_stored, key, [value |-> value, time |-> e_clock])
          /\ e_call' = [op |-> "set_cached", key |-> key]
    /\ e_returned' = None
    /\ UNCHANGED <<e_config, e_performance_log, e_clock>>
    /\ UNCHANGED <<ephemeris, notEngine>>

\* A call of get_cached(key).
GetCached ==
    /\ \E key \in CacheKeys :
          LET got == get_cached(e_config, e_cache, key, e_clock)
          IN  /\ e_returned' = got.returned
              /\ e_cache' = got.cache
              /\ e_call' = [op |-> "get_cached", key |-> key]
    /\ UNCHANGED <<e_config, e_performance_log, e_clock, e_stored>>
    /\ UNCHANGED <<ephemeris, notEngine>>

\* Time passes between two calls.
ClockAdvance ==
    /\ \E step \in ClockSteps :
          /\ e_clock + step <= MaxClock
          /\ e_clock' = e_clock + step
    /\ e_call' = [op |-> "sleep"]
    /\ UNCHANGED <<e_config, e_cache, e_performance_log, e_returned, e_stored>>
    /\ UNCHANGED <<ephemeris, notEngine>>

-----------------------------------------------------------------------------
(* The body of the scoring loop (lines 85-114) run by several workers:     *)
(* each worker takes a candidate nobody has taken, in any order, computes   *)
(* its Julian day and chart into its own local variables, scores the chart  *)
(* and appends the entry to the list; the steps of the workers interleave.  *)
(* The ranking (lines 117-132) runs when every candidate has been appended. *)

\* Lines 92-114: the entry appended for a candidate whose chart is computed.
score_chart(candidate_time, candidate_jd, chart, events, personality) ==
    LET scores == method_scores(chart, events, personality)
        composite_score == composite_of(scores)
    IN  [time |-> candidate_time,
         julian_day |-> candidate_jd,
         chart |-> chart,
         scores |-> scores,
         composite_score |-> composite_score,
         confidence |-> calculate_confidence(composite_score, scores)]

\* A Julian day kept in one slot that every worker writes: the one written
\* by the worker of the highest number that holds one.
shared_julian_day(workers, w) ==
    LET holders == {v \in DOMAIN workers : workers[v].pc # "idle"}
    IN  workers[CHOOSE v \in holders : \A u \in holders : u <= v].candidate_jd

\* The local variable candidate_jd of worker w (line 86), read at line 89.
own_julian_day(workers, w) == workers[w].candidate_jd

\* Bound of the number of candidates handed to the workers.
MaxEvalCandidates == 3

EvalWorkers == {1, 2}

\* The candidates around 12:00, two minutes apart: 11:57, 11:59, 12:01, ...
EvalCandidates(n) == [i \in 1..n |-> 717 + 2 * (i - 1)]

\* The times some worker holds or has appended.
TakenTimes ==
    {p_workers[w].candidate_time : w \in {v \in EvalWorkers : p_workers[v].pc # "idle"}}
    \cup {p_scored[i].time : i \in 1..Len(p_scored)}

EvalInit ==
    /\ p_pc = "SCORING_CANDIDATES"
    /\ ephemeris \in {sky \in RunSkies : sky.switch = 721}
    /\ \E n \in 1..MaxEvalCandidates, events \in {l \in LifeEventLists : Len(l) \in 1..2} :
          p_input = [latitude |-> R(0), longitude |-> R(0), life_events |-> events,
                     personality |-> Traits, candidates |-> EvalCandidates(n)]
    /\ p_workers = [w \in EvalWorkers |-> [pc |-> "idle"]]
    /\ p_scored = <<>>
    /\ p_result = <<>>

\* Line 85-86: a worker takes a candidate and computes its Julian day.
EvalTake ==
    /\ p_pc = "SCORING_CANDIDATES"
    /\ \E w \in EvalWorkers, i \in 1..Len(p_input.candidates) :
          /\ p_workers[w].pc = "idle"
          /\ p_input.candidates[i] \notin TakenTimes
          /\ p_workers' =
                [p_workers EXCEPT ![w] =
                    [pc |-> "chart",
                     candidate_time |-> p_input.candidates[i],
                     candidate_jd |-> candidate_julian_day(p_input.candidates[i])]]
    /\ UNCHANGED <<p_pc, p_input, p_scored, p_result>>
    /\ UNCHANGED enginevars
    /\ UNCHANGED <<ephemeris, notEval>>

\* Line 89: the worker computes the chart of its candidate.
EvalChart ==
    /\ p_pc = "SCORING_CANDIDATES"
    /\ \E w \in EvalWorkers :
          /\ p_workers[w].pc = "chart"
          /\ p_workers' =
                [p_workers EXCEPT ![w] =
                    [pc |-> "score",
                     candidate_time |-> p_workers[w].candidate_time,
                     candidate_jd |-> p_workers[w].candidate_jd,
                     chart |-> calculate_candidate_chart(own_julian_day(p_workers, w),
                                                         p_input.latitude,
                                                         p_input.longitude)]]
    /\ UNCHANGED <<p_pc, p_input, p_scored, p_result>>
    /\ UNCHANGED enginevars
    /\ UNCHANGED <<ephemeris, notEval>>

\* Lines 92-114: the worker scores its chart and appends the entry.
EvalAppend ==
    /\ p_pc = "SCORING_CANDIDATES"
    /\ \E w \in EvalWorkers :
          /\ p_workers[w].pc = "score"
          /\ p_scored' =
                Append(p_scored,
                       score_chart(p_workers[w].candidate_time, p_workers[w].candidate_jd,
                                   p_workers[w].chart, p_input.life_events,
                                   p_input.personality))
          /\ p_workers' = [p_workers EXCEPT ![w] = [pc |-> "idle"]]
    /\ UNCHANGED <<p_pc, p_input, p_result>>
    /\ UNCHANGED enginevars
    /\ UNCHANGED <<ephemeris, notEval>>

\* Lines 117-132 once every candidate has been appended: the sort of the
\* list as it was appended, and the returned dict.
EvalRank ==
    /\ p_pc = "SCORING_CANDIDATES"
    /\ Len(p_scored) = Len(p_input.candidates)
    /\ p_result' = rectification_result(sort_by_composite_score(p_scored),
                                        p_input.candidates)
    /\ p_pc' = "DONE"
    /\ UNCHANGED <<p_input, p_workers, p_scored>>
    /\ UNCHANGED enginevars
    /\ UNCHANGED <<ephemeris, notEval>>

-----------------------------------------------------------------------------
(* Specifications.  Each one exercises one entry point; the variables of   *)
(* the other entry points stay at their idle values.                       *)

RunIdle ==
    /\ pc = "idle" /\ birth_data = <<>> /\ life_events = <<>>
    /\ time_window_hours = 0 /\ current_time = 0
    /\ candidates = <<>> /\ scored_candidates = <<>> /\ result = <<>>

AspectIdle ==
    /\ a_pc = "idle" /\ a_preset = "" /\ a_planets = <<>> /\ a_i = 0 /\ a_j = 0
    /\ a_aspects = <<>> /\ a_examined = <<>>

ScoreIdle ==
    /\ s_pc = "idle" /\ s_input = <<>> /\ s_events = <<>> /\ s_personality = <<>>
    /\ s_candidate = <<>>

HouseIdle == h_pc = "idle" /\ h_args = <<>> /\ h_i = 0 /\ h_houses = <<>>

CallIdle == f_pc = "idle" /\ f_call = <<>> /\ f_result = <<>>

\* The engine as __init__ leaves it, with the default config.
EngineIdle ==
    /\ e_config = [cache_enabled |-> TRUE]
    /\ e_cache = <<>> /\ e_performance_log = <<>> /\ e_clock = 0
    /\ e_call = [op |-> "init"] /\ e_returned = None /\ e_stored = <<>>

EvalIdle ==
    /\ p_pc = "idle" /\ p_input = <<>> /\ p_workers = <<>> /\ p_scored = <<>>
    /\ p_result = <<>>

SpecDashaInit ==
    DashaInit /\ ephemeris = <<>> /\ RunIdle /\ AspectIdle /\ ScoreIdle /\ HouseIdle /\ CallIdle
    /\ EngineIdle /\ EvalIdle
SpecDashaNext == DashaCall \/ DashaIter \/ DashaExit
SpecDasha == SpecDashaInit /\ [][SpecDashaNext]_vars

SpecAspectsInit ==
    AspectInit /\ ephemeris = <<>> /\ RunIdle /\ DashaIdle /\ ScoreIdle /\ HouseIdle /\ CallIdle
    /\ EngineIdle /\ EvalIdle
SpecAspectsNext == AspectPair \/ AspectReturn
SpecAspects == SpecAspectsInit /\ [][SpecAspectsNext]_vars

SpecScoreInit ==
    ScoreInit /\ RunIdle /\ DashaIdle /\ AspectIdle /\ HouseIdle /\ CallIdle
    /\ EngineIdle /\ EvalIdle
SpecScoreNext == ScoreCandidate \/ ConfidenceCall
SpecScore == SpecScoreInit /\ [][SpecScoreNext]_vars

SpecHousesInit ==
    HouseInit /\ ephemeris = <<>> /\ RunIdle /\ DashaIdle /\ AspectIdle /\ ScoreIdle /\ CallIdle
    /\ EngineIdle /\ EvalIdle
SpecHousesNext == HouseCusp \/ HouseReturn
SpecHouses == SpecHousesInit /\ [][SpecHousesNext]_vars

SpecCallInit ==
    CallInit /\ ephemeris = <<>> /\ RunIdle /\ DashaIdle /\ AspectIdle /\ ScoreIdle /\ HouseIdle
    /\ EngineIdle /\ EvalIdle
SpecCallNext ==
    PreciseJulianDay \/ JulianDay \/ CalculateAyanamsa \/ TropicalToSidereal \/ CalculateHouses
    \/ PlanetLongitude \/ CalculateChart
SpecCall == SpecCallInit /\ [][SpecCallNext]_vars

SpecEvalInit ==
    EvalInit /\ RunIdle /\ DashaIdle /\ AspectIdle /\ ScoreIdle /\ HouseIdle /\ CallIdle
    /\ EngineIdle
SpecEvalNext == EvalTake \/ EvalChart \/ EvalAppend \/ EvalRank
SpecEval == SpecEvalInit /\ [][SpecEvalNext]_vars

SpecCacheInit ==
    EngineInit /\ ephemeris = <<>> /\ RunIdle /\ DashaIdle /\ AspectIdle /\ ScoreIdle
    /\ HouseIdle /\ CallIdle /\ EvalIdle
SpecCacheNext == SetCached \/ GetCached \/ ClockAdvance
SpecCache == SpecCacheInit /\ [][SpecCacheNext]_vars

Init == RunInit /\ DashaIdle /\ AspectIdle /\ ScoreIdle /\ HouseIdle /\ CallIdle
    /\ EngineIdle /\ EvalIdle
Next == Validate \/ GenerateCandidate \/ GenerateReturn \/ ScoreNext \/ ScoreEnd \/ Rank
Spec == Init /\ [][Next]_vars

-----------------------------------------------------------------------------
(* Properties of _calculate_running_dasha, checked under SpecDasha.        *)

\* The most passes the while loop can make for years_since_birth <= MaxYears:
\* nine per full 120-year cycle, and one more cycle for the remainder.
MaxDashaPasses == Len(dasha_lords) * ((MaxYears \div 120) + 1)

\* C8: for every birth moon longitude in [0,360) and every years_elapsed in
\* 0..MaxYears the call never raises, its nakshatra index is in 0..26, the
\* while loop makes at most MaxDashaPasses passes (each pass that does not
\* return adds one), and what the call returns is one of the nine period lords.
C8_DashaReturnsLord ==
    /\ d_pc \in {"call", "loop", "done"}
    /\ nakshatra_number(d_moon) \in 0..26
    /\ d_loop.iterations <= MaxDashaPasses
    /\ d_pc = "done" => d_lord \in Lords

\* A call for 300 years that went round the nine lords at least twice.
C8_Witness ==
    /\ d_pc = "done"
    /\ d_years = R(300)
    /\ d_loop.iterations >= 2 * Len(dasha_lords)
    /\ d_lord \in Lords

\* C9 as stated: the lord 120 years later is the lord now, for every moon
\* longitude and every years_elapsed.
C9_PeriodicEverywhere ==
    d_pc = "done" => calculate_running_dasha(d_moon, RatAdd(d_years, R(120))) = d_lord

\* C9 amended: the lord 120 years later is the lord now, except at the one
\* instant years_elapsed = remaining span of the birth lord, which the code
\* gives to the birth lord (elapsed <= remaining) while the same instant a
\* cycle later belongs to its successor.
C9_PeriodicOffBoundary ==
    (d_pc = "done" /\ d_years # remaining_birth_dasha(d_moon))
        => calculate_running_dasha(d_moon, RatAdd(d_years, R(120))) = d_lord

\* A call past the birth lord's span, returned from inside the loop.
C9_Witness ==
    /\ d_pc = "done"
    /\ RatGT(d_years, remaining_birth_dasha(d_moon))
    /\ d_lord # birth_dasha_lord(d_moon)
    /\ calculate_running_dasha(d_moon, RatAdd(d_years, R(120))) = d_lord

-----------------------------------------------------------------------------
(* Properties of the aspect detector, checked under SpecAspects.           *)

\* The angular distance of two longitudes on the circle, in [0, 180].
AngularDistance(x, y) ==
    LET d == RatAbs(RatSub(x, y)) IN RatMin(d, RatSub(R(360), d))

\* The canonical angle of each aspect type and the two orb presets.
AspectAngle ==
    [conjunction |-> 0, sextile |-> 60, square |-> 90, trine |-> 120, opposition |-> 180]
PresetTolerance ==
    [precise |-> [conjunction |-> 6, opposition |-> 6, trine |-> 5, square |-> 5, sextile |-> 3],
     standard |-> [conjunction |-> 8, opposition |-> 8, trine |-> 6, square |-> 6, sextile |-> 4]]

\* The longitude of the body an aspect names.
LongitudeOf(name) ==
    a_planets[CHOOSE i \in 1..Len(a_planets) : a_planets[i].name = name].longitude

SamePair(x, y) ==
    \/ x.planet1 = y.planet1 /\ x.planet2 = y.planet2
    \/ x.planet1 = y.planet2 /\ x.planet2 = y.planet1

\* C10: under both presets every emitted aspect has orb = |separation -
\* aspect angle| with 0 <= orb <= the preset tolerance of its type and the
\* separation in [0,180]; every unordered pair of distinct bodies is examined
\* exactly once; and no pair yields more than one aspect.
C10_AspectsWithinOrb ==
    /\ \A k \in 1..Len(a_aspects) :
          LET asp == a_aspects[k]
              sep == AngularDistance(LongitudeOf(asp.planet1), LongitudeOf(asp.planet2))
          IN  /\ asp.planet1 # asp.planet2
              /\ RatGE(sep, R(0)) /\ RatLE(sep, R(180))
              /\ asp.orb = RatAbs(RatSub(sep, R(AspectAngle[asp.aspect])))
              /\ RatGE(asp.orb, R(0))
              /\ RatLE(asp.orb, R(PresetTolerance[a_preset][asp.aspect]))
    /\ \A k \in 1..Len(a_examined) :
          /\ 0 <= a_examined[k][1] /\ a_examined[k][1] < a_examined[k][2]
          /\ a_examined[k][2] < Len(a_planets)
          /\ \A l \in 1..Len(a_examined) : a_examined[l] = a_examined[k] => l = k
    /\ a_pc = "done" =>
          \A i \in 0..(Len(a_planets) - 1) : \A j \in (i + 1)..(Len(a_planets) - 1) :
              \E k \in 1..Len(a_examined) : a_examined[k] = <<i, j>>
    /\ \A k, l \in 1..Len(a_aspects) : SamePair(a_aspects[k], a_aspects[l]) => k = l

\* Three bodies, all three pairs examined, two aspects found, one of them
\* exactly on the edge of its orb window.
C10_Witness ==
    /\ a_pc = "done"
    /\ Len(a_planets) = 3
    /\ Len(a_examined) = 3
    /\ Len(a_aspects) >= 2
    /\ \E k \in 1..Len(a_aspects) :
          a_aspects[k].orb = R(PresetTolerance[a_preset][a_aspects[k].aspect])

\* The aspects emitted for the pair of bodies at positions i < j.
AspectsOfPair(i, j) ==
    {k \in 1..Len(a_aspects) :
        /\ a_aspects[k].planet1 = a_planets[i].name
        /\ a_aspects[k].planet2 = a_planets[j].name}

\* The pair at positions i < j yields exactly one aspect, of the given type
\* and with orb 0.
OneExactAspect(i, j, type) ==
    /\ Cardinality(AspectsOfPair(i, j)) = 1
    /\ \A k \in AspectsOfPair(i, j) :
          a_aspects[k].aspect = type /\ a_aspects[k].orb = R(0)

\* C11: two bodies whose angular separation is exactly 0, 60, 90, 120 or 180
\* degrees yield exactly one aspect, of that type and with orb 0, whichever
\* body is listed first and on whichever side of the 0/360 wrap they lie; in
\* particular 10 and 70 under the standard orbs give one sextile, and 100 and
\* 280 one opposition.
C11_ExactAngleOneAspect ==
    a_pc = "done" =>
        \A i \in 1..Len(a_planets) : \A j \in (i + 1)..Len(a_planets) :
            LET x == a_planets[i].longitude
                y == a_planets[j].longitude
            IN  /\ \A type \in DOMAIN AspectAngle :
                      AngularDistance(x, y) = R(AspectAngle[type]) =>
                          OneExactAspect(i, j, type)
                /\ (a_preset = "standard" /\ {x, y} = {R(10), R(70)}) =>
                      OneExactAspect(i, j, "sextile")
                /\ (a_preset = "standard" /\ {x, y} = {R(100), R(280)}) =>
                      OneExactAspect(i, j, "opposition")

\* Standard orbs, three bodies at 10, 70 and 355: 10 and 70 give the one
\* sextile, listed in that order; 70 and 355 lie 75 degrees apart across the
\* wrap and give nothing.
C11_Witness ==
    /\ a_pc = "done" /\ a_preset = "standard"
    /\ Len(a_planets) = 3
    /\ a_planets[1].longitude = R(10)
    /\ a_planets[2].longitude = R(70)
    /\ a_planets[3].longitude = R(355)
    /\ \E k \in 1..Len(a_aspects) :
          /\ a_aspects[k].planet1 = "Sun" /\ a_aspects[k].planet2 = "Moon"
          /\ a_aspects[k].aspect = "sextile" /\ a_aspects[k].orb = R(0)
    /\ AspectsOfPair(2, 3) = {}

\* C12: every aspect emitted, under the tight preset and under the standard
\* preset alike, carries a strength: exact if its orb is < 1 degree, close if
\* its orb is >= 1 and < 3 degrees, wide otherwise.
C12_StrengthOnEveryAspect ==
    \A k \in 1..Len(a_aspects) :
        /\ "strength" \in DOMAIN a_aspects[k]
        /\ a_aspects[k].strength =
              (IF RatLT(a_aspects[k].orb, R(1)) THEN "exact"
               ELSE IF RatLT(a_aspects[k].orb, R(3)) THEN "close" ELSE "wide")

-----------------------------------------------------------------------------
(* Properties of the scoring of one candidate, checked under SpecScore.    *)

InUnitInterval(x) == RatGE(x, R(0)) /\ RatLE(x, R(1))

\* 0.35*dasha + 0.25*transit + 0.20*ascendant_traits + 0.20*house_events,
\* in hundredths.
WeightedHundredths(scores) ==
    RatAdd(RatAdd(RatMul(R(35), scores.dasha_events), RatMul(R(25), scores.transit_timing)),
           RatAdd(RatMul(R(20), scores.ascendant_traits), RatMul(R(20), scores.house_events)))

\* C6: for every candidate, every list of events with importance in [0,1]
\* and every personality map, each of the four method scores lies in [0,1],
\* and composite_score is 0.35*dasha + 0.25*transit + 0.20*ascendant_traits
\* + 0.20*house_events and lies in [0,1].
C6_ScoresInUnitInterval ==
    (s_pc = "done" /\ s_input # <<>>) =>
        /\ InUnitInterval(s_candidate.scores.dasha_events)
        /\ InUnitInterval(s_candidate.scores.transit_timing)
        /\ InUnitInterval(s_candidate.scores.ascendant_traits)
        /\ InUnitInterval(s_candidate.scores.house_events)
        /\ RatMul(R(100), s_candidate.composite_score) = WeightedHundredths(s_candidate.scores)
        /\ InUnitInterval(s_candidate.composite_score)

\* A candidate scored against two events and a personality map, with four
\* different method scores.
C6_Witness ==
    /\ s_pc = "done" /\ s_input # <<>>
    /\ Len(s_events) = 2 /\ s_personality # <<>>
    /\ s_candidate.scores.dasha_events = Rat(13, 20)
    /\ s_candidate.scores.transit_timing = Rat(9, 20)
    /\ s_candidate.scores.ascendant_traits = Rat(17, 40)
    /\ s_candidate.scores.house_events = Rat(3, 5)

\* The mean squared deviation of the four method scores from the composite.
MeanSquaredDeviation(c, scores) ==
    LET sq(x) == RatMul(RatSub(x, c), RatSub(x, c))
    IN  RatMul(Rat(1, 4),
               RatAdd(RatAdd(sq(scores.dasha_events), sq(scores.transit_timing)),
                      RatAdd(sq(scores.ascendant_traits), sq(scores.house_events))))

\* The comparison value: composite plus 0.1 iff the deviation is < 0.05.
BonusAdjusted(c, scores) ==
    IF RatLT(MeanSquaredDeviation(c, scores), Rat(1, 20)) THEN RatAdd(c, Rat(1, 10)) ELSE c

\* C7: the confidence is HIGH iff composite + bonus >= 0.85, MEDIUM iff
\* 0.65 <= composite + bonus < 0.85 and LOW otherwise, the bonus being 0.1
\* iff the mean squared deviation of the four method scores from the
\* composite is < 0.05; the composite_score stored on the candidate is the
\* weighted sum, without the bonus.
C7_ConfidenceFromAdjusted ==
    s_pc = "done" =>
        LET adj == BonusAdjusted(s_candidate.composite_score, s_candidate.scores)
        IN  /\ s_candidate.confidence \in {"HIGH", "MEDIUM", "LOW"}
            /\ s_candidate.confidence = "HIGH" <=> RatGE(adj, Rat(85, 100))
            /\ s_candidate.confidence = "MEDIUM" <=>
                   (RatGE(adj, Rat(65, 100)) /\ RatLT(adj, Rat(85, 100)))
            /\ s_candidate.confidence = "LOW" <=> RatLT(adj, Rat(65, 100))
            /\ RatMul(R(100), s_candidate.composite_score)
                   = WeightedHundredths(s_candidate.scores)

\* Four equal scores of 0.75: the composite 0.75 is stored as it is, and the
\* bonus lifts the comparison value exactly onto the HIGH threshold.
C7_Witness ==
    /\ s_pc = "done"
    /\ s_candidate.composite_score = Rat(3, 4)
    /\ s_candidate.scores.dasha_events = Rat(3, 4)
    /\ s_candidate.scores.house_events = Rat(3, 4)
    /\ s_candidate.confidence = "HIGH"


-----------------------------------------------------------------------------
(* Properties of rectify_birth_time, checked under Spec.                   *)

\* The run has returned or raised.
Terminal == {"DONE", "FAILED", "RAISED"}

\* The call returned success=true.
Succeeded == "success" \in DOMAIN result /\ result.success

\* The call returned success=false with an error.
Failed == "success" \in DOMAIN result /\ ~result.success /\ "error" \in DOMAIN result

\* Latitude in [-90, 90] and longitude in [-180, 180].
InRange(data) ==
    /\ RatGE(data.latitude, R(-90)) /\ RatLE(data.latitude, R(90))
    /\ RatGE(data.longitude, R(-180)) /\ RatLE(data.longitude, R(180))

\* C1: a call with fewer than 3 life events (0, 1 or 2) returns
\* success=false with an error and scores no candidate; a call with 3 or
\* more life events (and a window that holds candidates) returns
\* success=true.
C1_FewerThanThreeEventsFail ==
    /\ Len(life_events) < 3 => scored_candidates = <<>>
    /\ pc \in Terminal =>
          /\ Len(life_events) < 3 => Failed
          /\ (Len(life_events) >= 3 /\ time_window_hours >= 0) => Succeeded

\* C2: a latitude outside [-90,90] or a longitude outside [-180,180] passed
\* to rectify_birth_time is reported as an error, and no candidate chart is
\* computed from it.
C2_OutOfRangeRejected ==
    ~InRange(birth_data) =>
        /\ scored_candidates = <<>>
        /\ pc \in Terminal => Failed

\* C3: rectify_birth_time never raises: for every list of well-formed life
\* events and every integer window, zero and negative ones included, it
\* returns success=false with an error, or success=true with a best
\* candidate, its scores, the alternatives and the candidate count.
C3_NeverRaises ==
    /\ pc # "RAISED"
    /\ pc \in Terminal =>
          \/ Failed
          \/ /\ Succeeded
             /\ {"rectified_time", "method_scores", "alternatives",
                 "total_candidates_tested"} \subseteq DOMAIN result

\* C4: for every approximate time and every window W >= 0 the candidates are
\* approx - 30*W minutes, then every 2 minutes, up to approx + 30*W minutes
\* inclusive, 30*W + 1 of them (121 for W = 4); the loop makes at most
\* 30*W + 1 passes, each one appending the next time, and then ends.
C4_CandidatesEveryTwoMinutes ==
    (pc # "idle" /\ time_window_hours >= 0) =>
        LET approx == IF "approximate_time" \in DOMAIN birth_data
                      THEN birth_data.approximate_time ELSE 12 * 60
            W == time_window_hours
            n == Len(candidates)
        IN  /\ \A i \in 1..n : candidates[i] = approx - 30 * W + 2 * (i - 1)
            /\ \A i \in 1..(n - 1) : candidates[i] < candidates[i + 1]
            /\ n <= 30 * W + 1
            /\ pc = "GENERATING_CANDIDATES" => current_time = approx - 30 * W + 2 * n
            /\ pc \in {"SCORING_CANDIDATES", "RANKING", "DONE", "RAISED"} =>
                  /\ n = 30 * W + 1
                  /\ candidates[1] = approx - 30 * W
                  /\ candidates[n] = approx + 30 * W

\* The default window of 4 hours around 12:00: 121 candidates, 10:00 to 14:00.
C4_Witness ==
    /\ pc = "SCORING_CANDIDATES"
    /\ time_window_hours = 4
    /\ Len(candidates) = 121
    /\ candidates[1] = 600 /\ candidates[121] = 840

\* C5: in a successful rectification over n candidates the best candidate's
\* composite_score is at least that of every other candidate, the
\* alternatives are the min(3, n-1) candidates ranked 2nd to 4th, in
\* non-increasing order of composite_score and without the best, and
\* total_candidates_tested is n.
C5_BestAndAlternatives ==
    (pc = "DONE" /\ Succeeded) =>
        LET n == Len(candidates)
            alts == result.alternatives
            k == Len(alts)
            chosen == {result.rectified_time} \cup {alts[a].time : a \in 1..k}
        IN  /\ result.total_candidates_tested = n
            /\ Len(scored_candidates) = n
            /\ {scored_candidates[i].time : i \in 1..n} = {candidates[i] : i \in 1..n}
            /\ \E i \in 1..n :
                  /\ scored_candidates[i].time = result.rectified_time
                  /\ scored_candidates[i].composite_score = result.confidence_score
            /\ \A i \in 1..n :
                  RatGE(result.confidence_score, scored_candidates[i].composite_score)
            /\ k = (IF n - 1 < 3 THEN n - 1 ELSE 3)
            /\ Cardinality(chosen) = k + 1
            /\ \A a \in 1..k :
                  /\ \E i \in 1..n : scored_candidates[i] = alts[a]
                  /\ RatGE(IF a = 1 THEN result.confidence_score
                           ELSE alts[a - 1].composite_score,
                           alts[a].composite_score)
                  /\ \A i \in 1..n :
                        scored_candidates[i].time \notin chosen =>
                            RatGE(alts[a].composite_score,
                                  scored_candidates[i].composite_score)

\* 31 candidates of which the last two score highest: the best is 12:28, the
\* alternatives are 12:30 and then the two earliest of the rest.
C5_Witness ==
    /\ pc = "DONE" /\ Succeeded
    /\ Len(candidates) = 31
    /\ result.rectified_time = 748
    /\ Len(result.alternatives) = 3
    /\ result.alternatives[1].time = 750
    /\ result.alternatives[2].time = 690
    /\ result.alternatives[3].time = 692
    /\ RatGT(result.alternatives[1].composite_score, result.alternatives[2].composite_score)

-----------------------------------------------------------------------------
(* Properties of the house cusps (SpecHouses).                             *)

InCircle(x) == RatLE(R(0), x) /\ RatLT(x, R(360))

\* C13: the houses computation returns exactly twelve entries numbered 1
\* to 12, each with a longitude in [0, 360) and a sign index in 0..11, for
\* every house system, every latitude in [-90, 90], with or without an
\* ayanamsa: no call raises, and a returned list has that shape.
C13_TwelveHousesInRange ==
    /\ h_pc # "raised"
    /\ h_pc = "done" =>
          /\ Len(h_houses) = 12
          /\ \A n \in 1..12 :
                /\ h_houses[n].house = n
                /\ InCircle(h_houses[n].longitude)
                /\ h_houses[n].sign_index \in 0..11


\* C14: with house_system = 'whole', for the ayanamsa argument of either
\* tier (None, or the computed ayanamsa value), the twelve returned cusps
\* are all exact multiples of 30 degrees: every cusp has degrees 0.
C14_WholeSignCuspsOnSignStarts ==
    (h_pc = "done" /\ h_args.system = "whole") =>
        \A n \in 1..Len(h_houses) :
            /\ h_houses[n].degrees = R(0)
            /\ RatMod(h_houses[n].longitude, R(30)) = R(0)

-----------------------------------------------------------------------------
(* Properties of the converters (SpecCall).                                *)

KnownAyanamsaSystems == {"LAHIRI", "RAMAN", "KP"}
KnownHouseSystems == {"equal", "whole", "placidus"}

C16_SiderealPlusAyanamsaIsTropical ==
    (f_pc = "returned" /\ f_call.fn = "tropical_to_sidereal") =>
        FloatMod(RatAdd(f_result, calculate_ayanamsa(f_call.jd, f_call.system)), R(360))
            = f_call.tropical_longitude

\* C17: for every Julian day the ayanamsa values returned for LAHIRI, RAMAN
\* and KP are pairwise different.
C17_NamedSystemsDiffer ==
    (f_pc = "returned" /\ f_call.fn = "calculate_ayanamsa"
        /\ f_call.system \in KnownAyanamsaSystems) =>
        \A other \in KnownAyanamsaSystems \ {f_call.system} :
            calculate_ayanamsa(f_call.jd, other) # f_result


\* 2000-01-01T12:00:00 UTC
J2000 ==
    [year |-> 2000, month |-> 1, day |-> 1, hour |-> 12, minute |-> 0,
     second |-> 0, microsecond |-> 0, tzinfo |-> <<0>>]

\* C18: the Julian day of 2000-01-01T12:00:00 UTC is exactly 2451545.0, from
\* precise_julian_day and from julian_day alike.
C18_EpochJulianDay ==
    (f_pc = "returned" /\ f_call.fn \in {"precise_julian_day", "julian_day"}
        /\ f_call.dt = J2000) =>
        f_result = R(2451545)

\* The basic converter has been called with the epoch instant and returned
\* 2451545.
C18_Witness ==
    /\ f_pc = "returned"
    /\ f_call.fn = "julian_day"
    /\ f_call.dt = J2000
    /\ f_result = <<2451545, 1>>

JulianDayOf(fn, dt) ==
    IF fn = "precise_julian_day" THEN precise_julian_day(dt) ELSE julian_day(dt)

\* Two aware datetimes denote the same instant (datetime equality).
SameInstant(dt, other) ==
    /\ dt.tzinfo # None
    /\ other.tzinfo # None
    /\ astimezone_utc(dt) = astimezone_utc(other)

\* C19: in every tier the Julian day is computed from the timestamp brought
\* to UTC: timestamps of the same instant with different offsets give the
\* same Julian day, and a timestamp without an offset gives the Julian day
\* of the same wall-clock time in UTC.  The enhanced tier converts with
\* precise_julian_day, the standard tier with julian_day.
C19_JulianDayOfUtcInstant ==
    (f_pc = "returned" /\ f_call.fn \in {"precise_julian_day", "julian_day"}) =>
        /\ \A other \in DatetimeSamples :
              SameInstant(f_call.dt, other) => JulianDayOf(f_call.fn, other) = f_result
        /\ f_call.dt.tzinfo = None =>
              f_result = JulianDayOf(f_call.fn, replace_tzinfo_utc(f_call.dt))


\* C20: every longitude the program produces lies in [0, 360), so that its
\* sign index floor(longitude / 30) is in 0..11: the planet longitudes of the
\* basic linear model (0.0 for an unknown planet id included) and every
\* house cusp longitude that the houses computation produces, none of which
\* may therefore stop it.
C20_LongitudesInCircle ==
    /\ (f_pc = "returned" /\ f_call.fn = "calculate_planet_longitude") =>
          /\ InCircle(f_result)
          /\ sign_index_of(f_result) \in 0..11
    /\ (f_call # <<>> /\ f_call.fn = "calculate_enhanced_houses") =>
          /\ f_pc # "raised"
          /\ f_pc = "returned" =>
                \A n \in 1..12 : /\ InCircle(f_result[n].longitude)
                                 /\ f_result[n].sign_index \in 0..11

-----------------------------------------------------------------------------
(* Properties of the phases of a run (Spec).                               *)

RunEdges ==
    {<<"VALIDATING_INPUT", "GENERATING_CANDIDATES">>,
     <<"VALIDATING_INPUT", "FAILED">>,
     <<"GENERATING_CANDIDATES", "SCORING_CANDIDATES">>,
     <<"SCORING_CANDIDATES", "RANKING">>,
     <<"RANKING", "DONE">>}

\* C23: a run moves only along VALIDATING_INPUT -> GENERATING_CANDIDATES ->
\* SCORING_CANDIDATES -> RANKING -> DONE, or from VALIDATING_INPUT straight
\* to FAILED.  FAILED is entered before any candidate exists; each pass of
\* the scoring loop scores the next candidate not yet scored, so every
\* candidate is scored exactly once; ranking starts when all are scored; and
\* a run ends nowhere but in DONE or FAILED (the loops being bounded, that
\* is what reaching DONE or FAILED comes to).
C23_PhasesInOrder ==
    /\ [](pc \in {"VALIDATING_INPUT", "GENERATING_CANDIDATES", "SCORING_CANDIDATES",
                  "RANKING", "DONE", "FAILED"})
    /\ [](pc = "FAILED" => candidates = <<>> /\ scored_candidates = <<>>)
    /\ [](pc \in {"RANKING", "DONE"} =>
            /\ Len(scored_candidates) = Len(candidates)
            /\ \A i \in 1..Len(candidates) :
                  Cardinality({j \in 1..Len(scored_candidates) :
                                  scored_candidates[j].time = candidates[i]}) = 1)
    /\ [][/\ pc' # pc => <<pc, pc'>> \in RunEdges
          /\ (pc = "SCORING_CANDIDATES" /\ scored_candidates' # scored_candidates) =>
                /\ Len(scored_candidates') = Len(scored_candidates) + 1
                /\ scored_candidates'[Len(scored_candidates')].time
                      = candidates[Len(scored_candidates')]
          /\ pc # "SCORING_CANDIDATES" /\ pc # "RANKING" =>
                scored_candidates' = scored_candidates]_vars

-----------------------------------------------------------------------------
(* Properties of the running dasha as a walk of the nakshatra-lord table   *)
(* (SpecDasha).                                                            *)

\* The j-th successor of the lord of nakshatra number n in the cyclic order
\* of the 27-entry table.
SuccessorInTable(n, j) == nakshatra_lords[((n + j) % 27) + 1]

\* The period lengths of the first j successors, added up.
RECURSIVE AccumulatedPeriods(_, _)
AccumulatedPeriods(n, j) ==
    IF j = 0 THEN 0
    ELSE AccumulatedPeriods(n, j - 1) + dasha_periods[SuccessorInTable(n, j)]

\* Successors enough to cover MaxYears.
MaxSuccessors == 9 * (MaxYears \div 120 + 2)

\* C24: the call returns the birth lord when the elapsed years are at most
\* remaining = period(birth lord) * (1 - position in the nakshatra), and
\* otherwise the first successor of the birth lord, in the cyclic order
\* ketu, venus, sun, moon, mars, rahu, jupiter, saturn, mercury, at which the
\* accumulated periods exceed elapsed - remaining.  The order the code walks
\* (the keys of dasha_periods) is that cyclic order, and the nine periods
\* sum to 120.
C24_LordWhoseSpanHoldsElapsed ==
    /\ AccumulatedPeriods(0, 9) = 120
    /\ \A n \in 0..26 :
          dasha_lords[((IndexOf(dasha_lords, nakshatra_lords[n + 1]) + 1) % 9) + 1]
              = SuccessorInTable(n, 1)
    /\ d_pc = "done" =>
          LET n == nakshatra_number(d_moon)
              remaining == RatMul(R(dasha_periods[nakshatra_lords[n + 1]]),
                                  RatSub(R(1), nakshatra_position(d_moon)))
              rest == RatSub(d_years, remaining)
          IN  IF RatLE(d_years, remaining)
              THEN d_lord = nakshatra_lords[n + 1]
              ELSE \E k \in 1..MaxSuccessors :
                      /\ RatGT(R(AccumulatedPeriods(n, k)), rest)
                      /\ \A j \in 1..(k - 1) : RatLE(R(AccumulatedPeriods(n, j)), rest)
                      /\ d_lord = SuccessorInTable(n, k)

\* Moon at 0 (ketu, 7 years remaining), 27 years after birth: the 20 years
\* of venus end exactly then, the loop made one full pass and the lord is
\* the sun.
C24_Witness ==
    /\ d_pc = "done"
    /\ d_moon = R(0)
    /\ d_years = R(27)
    /\ d_loop.iterations = 1
    /\ d_lord = "sun"


-----------------------------------------------------------------------------
(* The dasha score of the events.                                          *)

\* The set of lords correlated with an event category; a category outside
\* the table has no correlated lord.
CorrelatedLords(category) ==
    IF category \in DOMAIN event_correlations THEN event_correlations[category] ELSE {}

\* The score the rule "0.8 + 0.2*importance if the active lord is correlated
\* with the category, 0.3 if not" gives one event.
CorrelationRuleScore(chart, event) ==
    IF calculate_running_dasha(chart.moon_longitude, years_since_birth(chart, event))
           \in CorrelatedLords(event.type)
    THEN RatAdd(Rat(8, 10), RatMul(Rat(2, 10), importance_of(event)))
    ELSE Rat(3, 10)

\* C25: score_dasha_events returns 0.5 when there are no events; otherwise it
\* returns the average over the events of 0.8 + 0.2*importance when the lord
\* active at the event date (from the candidate's moon longitude and the
\* years between candidate birth and event) is in the category's
\* correlated-lord set, and of 0.3 when it is not.
C25_DashaScoreIsRuleAverage ==
    (s_pc = "done" /\ s_input # <<>>) =>
        LET chart == s_candidate.chart
            n == Len(s_events)
        IN  s_candidate.scores.dasha_events =
                IF n = 0 THEN Rat(1, 2)
                ELSE RatDiv(SumOf([k \in 1..n |-> CorrelationRuleScore(chart, s_events[k])]),
                            R(n))


-----------------------------------------------------------------------------
(* The transit score of the events.                                        *)

\* The credit of one event when each planet's transit is held against the
\* same three natal points: Sun, Moon and ascendant.
ThreePointCredit(chart, event) ==
    LET event_jd == event_julian_day(event.date)
        jupiter == RatMod(RatSub(transit_positions(event_jd).jupiter,
                                 event_ayanamsa(event_jd)), R(360))
        saturn == RatMod(RatSub(transit_positions(event_jd).saturn,
                                event_ayanamsa(event_jd)), R(360))
        natal_points == <<chart.planets_sidereal.sun, chart.planets_sidereal.moon,
                          chart.ascendant>>
        jupiter_credit ==
            IF event.type \in {"marriage", "career", "education", "children"}
            THEN RatMul(Rat(3, 10), R(Hits(jupiter, natal_points))) ELSE R(0)
        saturn_credit ==
            IF event.type \in {"career", "health", "death_family", "property"}
            THEN RatMul(Rat(25, 100), R(Hits(saturn, natal_points))) ELSE R(0)
    IN  RatMin(RatAdd(jupiter_credit, saturn_credit), R(1))

\* C26: score_transit_timing credits an event for each of natal Sun, Moon and
\* ascendant that transiting Jupiter aspects (within 2 degrees of 0, 60, 90,
\* 120 or 180) when the category is Jupiter-favorable, and likewise for each
\* of natal Sun, Moon and ascendant that transiting Saturn aspects when the
\* category is Saturn-challenging; the credit of one event is capped at 1.0
\* and the result is the average over the events.
C26_TransitCreditsThreePoints ==
    (s_pc = "done" /\ s_input # <<>> /\ s_events # <<>>) =>
        LET chart == s_candidate.chart
            n == Len(s_events)
        IN  s_candidate.scores.transit_timing =
                RatDiv(SumOf([k \in 1..n |-> ThreePointCredit(chart, s_events[k])]), R(n))


-----------------------------------------------------------------------------
(* Ties in the ranking.                                                    *)

\* C28: candidates of equal composite_score keep their generation
\* (chronological) order in the ranking: the best candidate is the earliest
\* time among the candidates of maximal composite_score, and alternatives of
\* equal score follow one another in chronological order.
C28_TiesKeepChronologicalOrder ==
    (pc = "DONE" /\ Succeeded) =>
        LET n == Len(scored_candidates)
            alts == result.alternatives
            ranked == <<[time |-> result.rectified_time,
                         composite_score |-> result.confidence_score]>>
                      \o [a \in 1..Len(alts) |->
                             [time |-> alts[a].time,
                              composite_score |-> alts[a].composite_score]]
        IN  /\ \A i \in 1..n, j \in 1..n :
                  (i < j /\ scored_candidates[i].composite_score
                              = scored_candidates[j].composite_score)
                      => scored_candidates[i].time < scored_candidates[j].time
            /\ \A i \in 1..n :
                  scored_candidates[i].composite_score = result.confidence_score
                      => result.rectified_time <= scored_candidates[i].time
            /\ \A a \in 1..Len(ranked), b \in 1..Len(ranked) :
                  (a < b /\ ranked[a].composite_score = ranked[b].composite_score)
                      => ranked[a].time < ranked[b].time

\* 31 candidates of which the last two tie for the highest score and the
\* rest tie below: 12:28 is ranked before 12:30, 11:30 before 11:32.
C28_Witness ==
    /\ pc = "DONE" /\ Succeeded
    /\ Len(candidates) = 31
    /\ result.rectified_time = 748
    /\ result.alternatives[1].time = 750
    /\ result.alternatives[1].composite_score = result.confidence_score
    /\ result.alternatives[2].time = 690
    /\ result.alternatives[3].time = 692
    /\ result.alternatives[2].composite_score = result.alternatives[3].composite_score


-----------------------------------------------------------------------------
(* Confidence of the best candidate and of the alternatives.               *)

\* LOW < MEDIUM < HIGH
ConfidenceRank(level) ==
    IF level = "HIGH" THEN 3 ELSE IF level = "MEDIUM" THEN 2 ELSE 1

\* C29: in every successful rectification result the confidence level of
\* the best candidate is not lower (LOW < MEDIUM < HIGH) than the confidence
\* level of any returned alternative.
C29_BestConfidenceNotBelowAlternatives ==
    (pc = "DONE" /\ Succeeded) =>
        \A a \in 1..Len(result.alternatives) :
            ConfidenceRank(result.confidence)
                >= ConfidenceRank(result.alternatives[a].confidence)


-----------------------------------------------------------------------------
(* Properties of the engine cache, checked under SpecCache.                *)

\* C30: after any sequence of set_cached and get_cached calls, with
\* cache_enabled a get_cached(key) returns the value most recently stored
\* under key if and only if it was stored less than 300 seconds ago, and
\* otherwise returns None and leaves no entry for key; with cache_enabled
\* false, set_cached stores nothing, get_cached returns None and the cache
\* stays as it was.
C30_CacheReturnsFreshValueOnly ==
    /\ e_call.op = "get_cached" =>
          LET key == e_call.key
              fresh == /\ e_config.cache_enabled
                       /\ key \in DOMAIN e_stored
                       /\ e_clock - e_stored[key].time < 300
          IN  IF fresh
              THEN /\ e_returned = e_stored[key].value
                   /\ key \in DOMAIN e_cache
                   /\ e_cache[key].value = e_stored[key].value
              ELSE /\ e_returned = None
                   /\ key \notin DOMAIN e_cache
    /\ ~e_config.cache_enabled => DOMAIN e_cache = {}

\* A value stored at 150 s and read back 299 seconds later, while the other
\* key's entry, 449 seconds old and not read since, is still in the cache.
C30_Witness ==
    /\ e_config.cache_enabled
    /\ e_call = [op |-> "get_cached", key |-> "sun_2451545"]
    /\ e_clock = 449
    /\ e_stored = [k \in CacheKeys |->
                     IF k = "sun_2451545" THEN [value |-> <<200>>, time |-> 150]
                     ELSE [value |-> <<100>>, time |-> 0]]
    /\ e_returned = <<200>>
    /\ "moon_2451545" \in DOMAIN e_cache


-----------------------------------------------------------------------------
(* Properties of the scoring loop body run by several workers, checked     *)
(* under SpecEval.                                                         *)

\* The entry the serial loop appends for a candidate time.
SerialEntry(candidate_time) ==
    score_candidate(candidate_time, p_input.latitude, p_input.longitude,
                    p_input.life_events, p_input.personality)

\* The dict the serial run returns.
SerialResult ==
    CHOOSE r \in {rectification_result(sort_by_composite_score(scored), p_input.candidates) :
                     scored \in {[i \in 1..Len(p_input.candidates) |->
                                    SerialEntry(p_input.candidates[i])]}} : TRUE

\* Every appended entry is the serial one of its candidate, no candidate is
\* appended twice, and the engine's cache and performance log are as
\* __init__ left them.
EvaluationIsPure ==
    /\ \A i \in 1..Len(p_scored) : p_scored[i] = SerialEntry(p_scored[i].time)
    /\ \A i \in 1..Len(p_scored), j \in 1..Len(p_scored) :
          p_scored[i].time = p_scored[j].time => i = j
    /\ \A w \in EvalWorkers :
          p_workers[w].pc = "score" =>
              p_workers[w].chart =
                  calculate_candidate_chart(candidate_julian_day(p_workers[w].candidate_time),
                                            p_input.latitude, p_input.longitude)
    /\ e_cache = <<>> /\ e_performance_log = <<>>

\* The entries were appended in generation order.
AppendedInGenerationOrder ==
    \A i \in 1..Len(p_scored), j \in 1..Len(p_scored) :
        i < j => p_scored[i].time < p_scored[j].time

-----------------------------------------------------------------------------
(* Properties of the chart in its two tiers, checked under SpecCall.       *)

\* A chart call has returned or raised.
ChartCallEnded ==
    /\ f_pc \in {"returned", "raised"}
    /\ f_call.fn = "calculate_professional_chart"

\* C21: build_chart returns a complete chart in both precision tiers:
\* whether the ENHANCED or the STANDARD path runs, the chart holds a position
\* for each of the ten bodies Sun, Moon, Mercury, Venus, Mars, Jupiter,
\* Saturn, Uranus, Neptune and Pluto, plus 12 houses and the aspect list.
C21_CompleteChartInBothTiers ==
    ChartCallEnded =>
        /\ f_pc = "returned"
        /\ {f_result.planets[k].key : k \in 1..Len(f_result.planets)}
              = {planet_keys[k] : k \in 1..Len(planet_keys)}
        /\ Len(f_result.houses) = 12
        /\ "aspects" \in DOMAIN f_result

\* C22: in every precision tier, for every house system and every latitude
\* in [-90, 90], the chart's ascendant summary field is one of the 12 zodiac
\* sign names and equals the zodiac sign of house cusp 1.
C22_AscendantIsSignOfCuspOne ==
    (ChartCallEnded /\ f_pc = "returned") =>
        /\ f_result.ascendant \in {<<ZODIAC_SIGNS[k]>> : k \in 1..12}
        /\ f_result.ascendant = <<f_result.houses[1].sign>>

=============================================================================
